---------------------------- MODULE Spec2Model ----------------------------
(***************************************************************************)
(* A model of wfl-game-base: the quadtree, the scene's bucket grid, the    *)
(* per-tick collision pipeline and the game loop's time step.              *)
(*                                                                         *)
(* Numbers.  JavaScript numbers are IEEE doubles.  The model keeps them in *)
(* fixed point: the integer v stands for the real number v / Unit, so that *)
(* 0.001 (the depth bias of _finalizeCollision) is the integer Milli.  NaN  *)
(* is the value NaN below; Infinity and -Infinity are PosInf and NegInf.   *)
(* Bodies are PhysicsObjects whose shape is the default bounding box of a  *)
(* FrameObject (an axis-aligned rectangle, rotation 0).                    *)
(***************************************************************************)
EXTENDS Integers, Sequences, FiniteSets, TLC

VARIABLES
    objs,      \* wflId -> the fields of that PhysicsObject
    qt,        \* the Quadtree: path from the root -> node
    game,      \* the Game: _excessDt, and the dt last handed to Scene.update
    scene,     \* the Scene: its lists, bucket grid, caches, place in update(dt)
    pair       \* two bodies handed to the collision functions, and what came back

vars == <<objs, qt, game, scene, pair>>

---------------------------------------------------------------------------
(* Bounds of the model *)

MaxBodies == 12          \* bodies inserted into one quadtree
MaxFrames == 6           \* frames of Game.update that are followed

---------------------------------------------------------------------------
(* Fixed-point numbers *)

Unit == 2 * 10^3
Half == Unit \div 2
Milli == Unit \div 10^3
PosInf == 10^9
NegInf == 0 - 10^9
NaN == 10^9 + 1

Range(s) == {s[i] : i \in DOMAIN s}
IsInf(a) == a = PosInf \/ a = NegInf
Finite(a) == a < PosInf /\ a > NegInf
Sgn(a) == IF a > 0 THEN 1 ELSE IF a < 0 THEN 0 - 1 ELSE 0
MathAbs(a) == IF a < 0 THEN 0 - a ELSE a

\* Integer quotient rounded toward zero.
TruncDiv(a, b) ==
    IF (a < 0) = (b < 0) THEN MathAbs(a) \div MathAbs(b)
    ELSE 0 - (MathAbs(a) \div MathAbs(b))

\* ToInt32 of a number: truncation toward zero, and 0 for NaN and the
\* infinities (the result is an integer, not a fixed-point value).
ToInt32(v) == IF Finite(v) THEN TruncDiv(v, Unit) ELSE 0

\* v >> 1, as a fixed-point value.
Shr1(v) == (ToInt32(v) \div 2) * Unit

\* Arithmetic of doubles: NaN propagates, Infinity absorbs every finite
\* number, and Infinity - Infinity, 0 * Infinity, 0 / 0 and
\* Infinity / Infinity are NaN.
Neg(a) == IF a = NaN THEN NaN ELSE 0 - a
a ++ b ==
    IF Finite(a) /\ Finite(b) THEN a + b
    ELSE IF a = NaN \/ b = NaN \/ (IsInf(a) /\ IsInf(b) /\ a # b) THEN NaN
    ELSE IF Finite(a) THEN b ELSE a
a -- b == a ++ Neg(b)
Mul(a, b) ==
    IF Finite(a) /\ Finite(b) THEN TruncDiv(a * b, Unit)
    ELSE IF a = NaN \/ b = NaN \/ a = 0 \/ b = 0 THEN NaN
    ELSE IF (a < 0) = (b < 0) THEN PosInf ELSE NegInf
Div(a, b) ==
    IF Finite(a) /\ Finite(b) /\ b # 0 THEN TruncDiv(a * Unit, b)
    ELSE IF a = NaN \/ b = NaN \/ (IsInf(a) /\ IsInf(b)) \/ (a = 0 /\ b = 0)
    THEN NaN
    ELSE IF IsInf(b) THEN 0
    ELSE IF (a < 0) = (b < 0) THEN PosInf ELSE NegInf

\* (v + 0.5) | 0, as a fixed-point value.
RoundOr0(v) == ToInt32(v ++ Half) * Unit

\* A comparison with NaN on either side is false.
Le(a, b) == a # NaN /\ b # NaN /\ a <= b
Ge(a, b) == a # NaN /\ b # NaN /\ a >= b
Lt(a, b) == a # NaN /\ b # NaN /\ a < b
Gt(a, b) == a # NaN /\ b # NaN /\ a > b

\* Math.min, Math.max, Math.abs, Math.ceil, Math.floor: NaN if an argument is.
MathMin(a, b) == IF a = NaN \/ b = NaN THEN NaN ELSE IF a <= b THEN a ELSE b
MathMax(a, b) == IF a = NaN \/ b = NaN THEN NaN ELSE IF a >= b THEN a ELSE b
MathFloor(a) == IF Finite(a) THEN (a \div Unit) * Unit ELSE a
MathCeil(a) == Neg(MathFloor(Neg(a)))

\* Math.sqrt of a fixed-point value: the largest r with r * r <= v * Unit.
SqrtMax == 23 * Unit
RECURSIVE SqrtBetween(_, _, _)
SqrtBetween(n, lo, hi) ==
    IF lo >= hi THEN lo
    ELSE LET mid == (lo + hi + 1) \div 2
         IN  IF mid * mid <= n THEN SqrtBetween(n, mid, hi)
             ELSE SqrtBetween(n, lo, mid - 1)
MathSqrt(v) ==
    IF v = NaN \/ v < 0 THEN NaN
    ELSE IF v = PosInf THEN PosInf
    ELSE SqrtBetween(v * Unit, 0, SqrtMax)

---------------------------------------------------------------------------
(* Vec2 *)

Vec2(x, y) == [x |-> x, y |-> y]
ZeroVec == [x |-> 0, y |-> 0]
add(v, other) == Vec2(v.x ++ other.x, v.y ++ other.y)
subtract(v1, v2) == Vec2(v1.x -- v2.x, v1.y -- v2.y)
multiply(v, scalar) == Vec2(Mul(v.x, scalar), Mul(v.y, scalar))
dot(v1, v2) == Mul(v1.x, v2.x) ++ Mul(v1.y, v2.y)
getMagnitudeSquared(v) == Mul(v.x, v.x) ++ Mul(v.y, v.y)
\* Math.sqrt(x * x + y * y); exact for a vector along an axis.
getMagnitude(v) ==
    IF v.x = NaN \/ v.y = NaN THEN NaN
    ELSE IF v.y = 0 THEN MathAbs(v.x)
    ELSE IF v.x = 0 THEN MathAbs(v.y)
    ELSE IF IsInf(v.x) \/ IsInf(v.y) THEN PosInf
    ELSE SqrtBetween(v.x * v.x + v.y * v.y, 0, SqrtMax)
normalize(v) == Vec2(Div(v.x, getMagnitude(v)), Div(v.y, getMagnitude(v)))
getOrthogonal(v) == Vec2(v.y, Neg(v.x))

---------------------------------------------------------------------------
(* PhysicsObject: construction and the calculation cache *)

\* cacheCalculations with rotation 0: |cos| = 1 and |sin| = 0, so the AABB is
\* the sprite's width and height.
cacheCalculations(o) ==
    [o EXCEPT !.calculationCache =
        [x |-> o.position.x, y |-> o.position.y,
         px |-> o.previousPosition.x, py |-> o.previousPosition.y,
         width |-> o.cachedWidth, height |-> o.cachedHeight,
         vx |-> o.velocity.x, vy |-> o.velocity.y,
         ax |-> o.acceleration.x, ay |-> o.acceleration.y,
         aabbWidth |-> o.cachedWidth, aabbHeight |-> o.cachedHeight,
         aabbHalfWidth |-> o.cachedWidth \div 2,
         aabbHalfHeight |-> o.cachedHeight \div 2]]

\* new PhysicsObject() with a sprite of the given size, placed at (x, y).
\* The calculation cache is empty until cacheCalculations runs; ignores is
\* what the body's canCollide turns down.
NewPhysicsObject(id, x, y, w, h) ==
    [wflId |-> id,
     position |-> [x |-> x, y |-> y],
     previousPosition |-> ZeroVec,
     previousVelocity |-> ZeroVec,
     velocity |-> ZeroVec,
     acceleration |-> ZeroVec,
     cachedWidth |-> w, cachedHeight |-> h,
     mass |-> Unit, restitution |-> 0, friction |-> 0,
     solid |-> TRUE, fixed |-> FALSE, allowOverlapEvents |-> FALSE,
     ignores |-> {},
     persists |-> FALSE,
     collisionDisplacementSum |-> ZeroVec,
     collisionSurfaceImpulseSum |-> ZeroVec,
     collisionMomentumSum |-> ZeroVec,
     bucketPosition |-> Vec2(0 - 1, 0 - 1),
     calculationCache |-> [x |-> 0, y |-> 0, px |-> 0, py |-> 0,
                           width |-> 0, height |-> 0, vx |-> 0, vy |-> 0,
                           ax |-> 0, ay |-> 0, aabbWidth |-> 0, aabbHeight |-> 0,
                           aabbHalfWidth |-> 0, aabbHalfHeight |-> 0]]

\* The test of the near sides alone.
checkBroadPhaseOneSided(c, oc) ==
    /\ Le(c.x -- c.aabbHalfWidth, oc.x ++ oc.aabbHalfWidth)
    /\ Le(c.y -- c.aabbHalfHeight, oc.y ++ oc.aabbHalfHeight)

checkBroadPhaseCollision(c, oc) ==
    /\ Le(c.x -- c.aabbHalfWidth, oc.x ++ oc.aabbHalfWidth)
    /\ Ge(c.x ++ c.aabbHalfWidth, oc.x -- oc.aabbHalfWidth)
    /\ Le(c.y -- c.aabbHalfHeight, oc.y ++ oc.aabbHalfHeight)
    /\ Ge(c.y ++ c.aabbHalfHeight, oc.y -- oc.aabbHalfHeight)

\* PhysicsObject.update(dt).  The display angle of the acceleration is one
\* of 32 directions; for an acceleration along an axis its cosine and sine
\* are the components of that direction, and with no acceleration the
\* velocity gains cos(0) * 0 * dt.  A NaN acceleration reads an undefined
\* entry of the angle cache and makes the velocity NaN.
DEFAULT_MAX_ACCELERATION == (25 * Unit) \div 10^3
DEFAULT_MAX_SPEED == (4 * Unit) \div 10

\* update, first part: the acceleration is limited and added to the
\* velocity along the angle it had before it was limited.
accelerate(o, dt) ==
    LET accelerationMag == getMagnitude(o.acceleration)
        limited == Gt(accelerationMag, DEFAULT_MAX_ACCELERATION)
        mag == IF limited THEN DEFAULT_MAX_ACCELERATION ELSE accelerationMag
        angle == IF accelerationMag = NaN THEN Vec2(NaN, NaN)
                 ELSE IF accelerationMag = 0 THEN Vec2(Unit, 0)
                 ELSE normalize(o.acceleration)
    IN  [o EXCEPT
           !.acceleration =
               IF limited
               THEN multiply(@, Div(DEFAULT_MAX_ACCELERATION, accelerationMag))
               ELSE @,
           !.velocity = Vec2(@.x ++ Mul(Mul(angle.x, mag), dt),
                             @.y ++ Mul(Mul(angle.y, mag), dt))]

\* update, second part: the velocity is limited to the greatest speed.
limitSpeed(o) ==
    [o EXCEPT !.velocity =
        IF Gt(getMagnitudeSquared(@), Mul(DEFAULT_MAX_SPEED, DEFAULT_MAX_SPEED))
        THEN multiply(@, Div(DEFAULT_MAX_SPEED, getMagnitude(@)))
        ELSE @]

\* update, last part: the position is kept and moves by the velocity.
move(o, dt) ==
    [o EXCEPT !.previousPosition = o.position,
              !.position = Vec2(@.x ++ Mul(o.velocity.x, dt),
                                @.y ++ Mul(o.velocity.y, dt))]

update(o, dt) ==
    IF o.fixed THEN o ELSE move(limitSpeed(accelerate(o, dt)), dt)

\* The vertices of the default bounding box of a frame, linked in order.
vertices(o) ==
    << Vec2(0 - o.cachedWidth \div 2, 0 - o.cachedHeight \div 2),
       Vec2(o.cachedWidth \div 2, 0 - o.cachedHeight \div 2),
       Vec2(o.cachedWidth \div 2, o.cachedHeight \div 2),
       Vec2(0 - o.cachedWidth \div 2, o.cachedHeight \div 2) >>
prevVertex(i) == IF i = 1 THEN 4 ELSE i - 1
nextVertex(i) == IF i = 4 THEN 1 ELSE i + 1

\* The normal of the first edge, for every edge.
satGetAxesOfFirstEdge(o) ==
    [i \in 1..4 |->
        normalize(Vec2(vertices(o)[2].y -- vertices(o)[1].y,
                       vertices(o)[1].x -- vertices(o)[2].x))]

\* The normals with an edge of zero length left at (0, 0) instead of 0/0.
satGetAxesKeepingZero(o) ==
    [i \in 1..4 |->
        IF vertices(o)[nextVertex(i)] = vertices(o)[i]
        THEN ZeroVec
        ELSE normalize(Vec2(vertices(o)[nextVertex(i)].y -- vertices(o)[i].y,
                            vertices(o)[i].x -- vertices(o)[nextVertex(i)].x))]

satGetAxes(o) ==
    [i \in 1..4 |->
        normalize(Vec2(vertices(o)[nextVertex(i)].y -- vertices(o)[i].y,
                       vertices(o)[i].x -- vertices(o)[nextVertex(i)].x))]

\* The smallest and the largest of the projections ds, from the i-th on.
RECURSIVE satProject(_, _, _, _)
satProject(ds, i, min, max) ==
    IF i > Len(ds) THEN [min |-> min, max |-> max]
    ELSE satProject(ds, i + 1,
                    IF Lt(ds[i], min) THEN ds[i] ELSE min,
                    IF Gt(ds[i], max) THEN ds[i] ELSE max)

satGetProjectionOntoAxis(o, axis) ==
    satProject([i \in 1..4 |->
                   dot(Vec2(vertices(o)[i].x ++ o.calculationCache.x,
                            vertices(o)[i].y ++ o.calculationCache.y), axis)],
               1, PosInf, NegInf)

\* The loop of checkNarrowPhaseCollision over the axes, with the
\* projections of the two bodies on each axis, and what follows the loop:
\* separated as soon as two projections do not overlap, else the first axis
\* of the smallest displacement length, turned to point from this body to the
\* other.  Sprites are square, so the function returns at its test
\* cache.width === cache.height, before the alternate direction for thin
\* objects.
RECURSIVE satLoop(_, _, _, _, _, _, _, _)
satLoop(axes, projections1, projections2, i, smallestOverlap, smallestAxis, displacement, collisionData) ==
    IF i > Len(axes)
    THEN IF smallestOverlap = PosInf
         THEN [result |-> FALSE, data |-> collisionData]
         ELSE [result |-> TRUE,
               data |-> [collisionData EXCEPT
                            !.colliding = TRUE,
                            !.direction =
                                IF Lt(dot(displacement, smallestAxis), 0)
                                THEN multiply(smallestAxis, 0 - Unit)
                                ELSE smallestAxis]]
    ELSE IF ~(/\ Le(projections1[i].min, projections2[i].max)
              /\ Ge(projections1[i].max, projections2[i].min))
    THEN [result |-> FALSE, data |-> collisionData]
    ELSE IF Lt(MathAbs(projections2[i].max -- projections1[i].min),
               smallestOverlap)
    THEN satLoop(axes, projections1, projections2, i + 1,
                 MathAbs(projections2[i].max -- projections1[i].min), axes[i],
                 displacement, collisionData)
    ELSE satLoop(axes, projections1, projections2, i + 1,
                 smallestOverlap, smallestAxis, displacement, collisionData)

\* checkNarrowPhaseCollision: the value returned and collisionData after it.
checkNarrowPhaseCollision(this, physObj, collisionData) ==
    satLoop(satGetAxes(this) \o satGetAxes(physObj),
            [i \in 1..8 |->
                satGetProjectionOntoAxis(
                    this, (satGetAxes(this) \o satGetAxes(physObj))[i])],
            [i \in 1..8 |->
                satGetProjectionOntoAxis(
                    physObj, (satGetAxes(this) \o satGetAxes(physObj))[i])],
            1, PosInf, ZeroVec,
            Vec2(physObj.calculationCache.x -- this.calculationCache.x,
                 physObj.calculationCache.y -- this.calculationCache.y),
            collisionData)

\* The vertex with the largest positive projection on the separation
\* normal: 0 if no vertex has one (the code then reads .prev of null).
RECURSIVE farthestVertexOf(_, _, _, _, _)
farthestVertexOf(vs, separationNormal, i, farthestVertexProjection, farthestVertex) ==
    IF i > Len(vs) THEN farthestVertex
    ELSE IF Gt(dot(vs[i], separationNormal), farthestVertexProjection)
    THEN farthestVertexOf(vs, separationNormal, i + 1,
                          dot(vs[i], separationNormal), i)
    ELSE farthestVertexOf(vs, separationNormal, i + 1,
                          farthestVertexProjection, farthestVertex)

TOO_CLOSE == (3 * Unit) \div (2 * 10^3)
NoEdge == [threw |-> TRUE, success |-> FALSE, maxProjectionVertex |-> ZeroVec,
           v0 |-> ZeroVec, v1 |-> ZeroVec]

\* The edge at the farthest vertex f that is most perpendicular to the
\* separation normal, leftDot and rightDot being the projections of the
\* edges that meet at f.
bestEdgeOf(o, f, leftDot, rightDot) ==
    LET tooClose == Lt(MathAbs(leftDot -- rightDot), TOO_CLOSE)
    IN  [threw |-> FALSE, success |-> ~tooClose,
         maxProjectionVertex |-> add(vertices(o)[f], o.position),
         v0 |-> IF tooClose THEN ZeroVec
                ELSE IF Le(leftDot, rightDot)
                THEN add(vertices(o)[prevVertex(f)], o.position)
                ELSE add(vertices(o)[f], o.position),
         v1 |-> IF tooClose THEN ZeroVec
                ELSE IF Le(leftDot, rightDot)
                THEN add(vertices(o)[f], o.position)
                ELSE add(vertices(o)[nextVertex(f)], o.position)]

findContactManifoldBestEdge(o, separationNormal) ==
    IF farthestVertexOf(vertices(o), separationNormal, 1, 0, 0) = 0 THEN NoEdge
    ELSE bestEdgeOf(o, farthestVertexOf(vertices(o), separationNormal, 1, 0, 0),
             dot(normalize(subtract(
                     vertices(o)[farthestVertexOf(vertices(o), separationNormal,
                                                  1, 0, 0)],
                     vertices(o)[prevVertex(
                         farthestVertexOf(vertices(o), separationNormal,
                                          1, 0, 0))])),
                 separationNormal),
             dot(normalize(subtract(
                     vertices(o)[farthestVertexOf(vertices(o), separationNormal,
                                                  1, 0, 0)],
                     vertices(o)[nextVertex(
                         farthestVertexOf(vertices(o), separationNormal,
                                          1, 0, 0))])),
                 separationNormal))

\* _clipPoints on the two points of an edge; an edge that was clipped to
\* fewer than two points stays empty, as findContactManifold then returns
\* no contact.  dist0 and dist1 are the distances of the two points past the
\* offset along the normal; the point between them is at
\* dist0 / (dist0 - dist1) of the edge.
clipAt(v0, v1, dist0, dist1) ==
    (IF Ge(dist0, 0) THEN <<v0>> ELSE <<>>)
    \o (IF Ge(dist1, 0) THEN <<v1>> ELSE <<>>)
    \o (IF dist0 # NaN /\ dist1 # NaN /\ Sgn(dist0) * Sgn(dist1) < 0
        THEN IF ~Finite(dist0 -- dist1) \/ dist0 -- dist1 = 0
             THEN << Vec2(v0.x ++ Mul(v1.x -- v0.x, Div(dist0, dist0 -- dist1)),
                          v0.y ++ Mul(v1.y -- v0.y, Div(dist0, dist0 -- dist1))) >>
             ELSE << Vec2(v0.x ++ TruncDiv((v1.x -- v0.x) * dist0, dist0 -- dist1),
                          v0.y ++ TruncDiv((v1.y -- v0.y) * dist0, dist0 -- dist1)) >>
        ELSE <<>>)

clipPoints(points, normal, offset) ==
    IF Len(points) < 2 THEN <<>>
    ELSE clipAt(points[1], points[2],
                dot(normal, points[1]) -- offset,
                dot(normal, points[2]) -- offset)

WithDepth(v, depth) == [x |-> v.x, y |-> v.y, depth |-> depth]

\* findContactManifold, its end: the manifold returned, collisionData after
\* it, and whether a best edge could not be read.  The direction of the
\* other body's edge is stored when a contact point is left.
withManifold(this, collisionData, contactManifold, edgeDirection) ==
    [manifold |-> contactManifold,
     data |-> IF contactManifold = <<>> THEN collisionData
              ELSE [collisionData EXCEPT
                       !.hasEdgeDirection = TRUE,
                       !.edgeDirection =
                           IF Lt(dot(edgeDirection, this.velocity), 0)
                           THEN multiply(edgeDirection, 0 - Unit)
                           ELSE edgeDirection],
     threw |-> FALSE]

\* The clipped points with their depths, without those past maxDepth.
depthsOf(points, refEdgeNormal, maxDepth) ==
    IF Len(points) < 2 THEN <<>>
    ELSE SelectSeq([i \in 1..2 |->
                       WithDepth(points[i],
                                 dot(refEdgeNormal, points[i]) -- maxDepth)],
                   LAMBDA q : ~Lt(q.depth, 0))

\* findContactManifold, step 3: the incident edge clipped by the two ends
\* of the reference edge and by its normal.
clipEdges(this, collisionData, referenceEdge, incidentEdge, otherBestEdge) ==
    LET refEdgeDirection ==
            normalize(subtract(referenceEdge.v1, referenceEdge.v0))
        refEdgeNormal == multiply(getOrthogonal(refEdgeDirection), 0 - Unit)
    IN  withManifold(this, collisionData,
            depthsOf(clipPoints(clipPoints(<<incidentEdge.v0, incidentEdge.v1>>,
                                           refEdgeDirection,
                                           dot(refEdgeDirection, referenceEdge.v0)),
                                multiply(refEdgeDirection, 0 - Unit),
                                Neg(dot(refEdgeDirection, referenceEdge.v1))),
                     refEdgeNormal,
                     dot(refEdgeNormal, referenceEdge.maxProjectionVertex)),
            normalize(subtract(otherBestEdge.v1, otherBestEdge.v0)))

\* findContactManifold, steps 1 and 2, with the best edges of the two
\* bodies: the successful one comes first; with one successful edge the
\* contact is the other body's farthest vertex; with two, the reference edge
\* is the one more perpendicular to the separation normal.
manifoldOfEdges(this, collisionData, edge0, edge1) ==
    LET swap == ~edge0.success /\ edge1.success
        bestEdge == IF swap THEN edge1 ELSE edge0
        otherBestEdge == IF swap THEN edge0 ELSE edge1
        bestEdgeDirection == normalize(subtract(bestEdge.v1, bestEdge.v0))
        bestEdgeNormal == multiply(getOrthogonal(bestEdgeDirection), 0 - Unit)
        bestIsReference ==
            Le(MathAbs(dot(subtract(bestEdge.v1, bestEdge.v0),
                           collisionData.direction)),
               MathAbs(dot(subtract(otherBestEdge.v1, otherBestEdge.v0),
                           collisionData.direction)))
    IN  IF edge0.threw \/ edge1.threw
        THEN [manifold |-> <<>>, data |-> collisionData, threw |-> TRUE]
        ELSE IF ~bestEdge.success /\ ~otherBestEdge.success
        THEN [manifold |-> <<>>, data |-> collisionData, threw |-> FALSE]
        ELSE IF ~otherBestEdge.success
        THEN [manifold |->
                  << WithDepth(otherBestEdge.maxProjectionVertex,
                         dot(bestEdgeNormal, otherBestEdge.maxProjectionVertex)
                             -- dot(bestEdgeNormal, bestEdge.maxProjectionVertex)) >>,
              data |-> [collisionData EXCEPT
                  !.hasEdgeDirection = TRUE,
                  !.edgeDirection =
                      IF Lt(dot(bestEdgeDirection, normalize(this.velocity)), 0)
                      THEN multiply(bestEdgeDirection, 0 - Unit)
                      ELSE Vec2(Neg(bestEdgeDirection.y), bestEdgeDirection.x)],
              threw |-> FALSE]
        ELSE clipEdges(this, collisionData,
                       IF bestIsReference THEN bestEdge ELSE otherBestEdge,
                       IF bestIsReference THEN otherBestEdge ELSE bestEdge,
                       otherBestEdge)

\* collisionData.bestEdge is null for square sprites, so the best edges are
\* found on the separation normal.
findContactManifold(this, physObj, collisionData) ==
    manifoldOfEdges(this, collisionData,
        findContactManifoldBestEdge(this, collisionData.direction),
        findContactManifoldBestEdge(physObj,
                                    multiply(collisionData.direction, 0 - Unit)))

NoCollisionData ==
    [colliding |-> FALSE, direction |-> ZeroVec,
     hasContactPoint |-> FALSE, contactPoint |-> WithDepth(ZeroVec, 0),
     hasEdgeDirection |-> FALSE, edgeDirection |-> ZeroVec]

\* The index of the first point of the deepest depth, 0 if there is none.
RECURSIVE bestContactPointOf(_, _, _, _)
bestContactPointOf(contactManifold, i, maxDepth, bestContactPoint) ==
    IF i > Len(contactManifold) THEN bestContactPoint
    ELSE IF Gt(contactManifold[i].depth, maxDepth)
    THEN bestContactPointOf(contactManifold, i + 1, contactManifold[i].depth, i)
    ELSE bestContactPointOf(contactManifold, i + 1, maxDepth, bestContactPoint)

moveTo(o, pos) ==
    [o EXCEPT !.position = pos,
              !.calculationCache.x = pos.x, !.calculationCache.y = pos.y]

\* The impulse of a contact with an edge, added to the two sums; edge is the
\* edge direction times the velocity along it, less the friction.
surfaceImpulse(this, physObj, edge) ==
    IF physObj.fixed
    THEN [this |-> [this EXCEPT !.collisionSurfaceImpulseSum = add(@, edge)],
          physObj |-> physObj]
    ELSE [this |-> [this EXCEPT !.collisionSurfaceImpulseSum =
                       add(@, Vec2(Div(edge.x, this.mass),
                                   Div(edge.y, this.mass)))],
          physObj |-> [physObj EXCEPT !.collisionSurfaceImpulseSum =
                       subtract(@, Vec2(Div(edge.x, physObj.mass),
                                        Div(edge.y, physObj.mass)))]]

MAX_COLLISION_MULTI_SAMPLE_COUNT == 6

\* The multi-sampling loop of checkCollision, from sample i on.
RECURSIVE sampleLoop(_, _, _, _, _, _)

\* A sample that collides in the narrow phase, with its contact manifold m:
\* the loop ends at the deepest contact point, if there is one.
sampleContact(moved, physObj, i, sampleCount, velocityIncrement, np, m) ==
    LET best == bestContactPointOf(m.manifold, 1, NegInf, 0)
        hit == [m.data EXCEPT !.hasContactPoint = TRUE,
                              !.contactPoint = m.manifold[best]]
        edge == multiply(hit.edgeDirection,
                    Mul(dot(hit.edgeDirection,
                            Vec2(moved.calculationCache.vx,
                                 moved.calculationCache.vy)),
                        Unit -- Mul(moved.friction ++ physObj.friction, Half)))
    IN  IF m.threw
        THEN [this |-> moved, physObj |-> physObj, data |-> np.data,
              threw |-> TRUE]
        ELSE IF best = 0
        THEN sampleLoop(moved, physObj, i + 1, sampleCount, velocityIncrement,
                        m.data)
        ELSE IF hit.hasEdgeDirection
        THEN [this |-> surfaceImpulse(moved, physObj, edge).this,
              physObj |-> surfaceImpulse(moved, physObj, edge).physObj,
              data |-> hit, threw |-> FALSE]
        ELSE [this |-> moved, physObj |-> physObj, data |-> hit,
              threw |-> FALSE]

\* A sample at its place, with the result np of the narrow phase.
sampleNarrow(moved, physObj, i, sampleCount, velocityIncrement, np) ==
    IF ~np.result
    THEN sampleLoop(moved, physObj, i + 1, sampleCount, velocityIncrement,
                    np.data)
    ELSE sampleContact(moved, physObj, i, sampleCount, velocityIncrement, np,
                       findContactManifold(moved, physObj, np.data))

sampleLoop(this, physObj, i, sampleCount, velocityIncrement, collisionData) ==
    IF i >= sampleCount
    THEN [this |-> this, physObj |-> physObj, data |-> collisionData,
          threw |-> FALSE]
    ELSE sampleNarrow(moveTo(this, add(this.position, velocityIncrement)),
                      physObj, i, sampleCount, velocityIncrement,
                      checkNarrowPhaseCollision(
                          moveTo(this, add(this.position, velocityIncrement)),
                          physObj, collisionData))

\* checkCollision before its loop: the number of samples, the increment of
\* a sample, and the body moved back by its cached velocity.
sampleCountOf(this) ==
    LET cache == this.calculationCache
        velocityMag == getMagnitude(Vec2(cache.vx, cache.vy))
        sampleCount ==
            MathMin(Unit ++ MathCeil(Div(velocityMag,
                                         MathMin(Mul(cache.width, Half),
                                                 Mul(cache.height, Half)))),
                    MAX_COLLISION_MULTI_SAMPLE_COUNT * Unit)
    IN  IF velocityMag = 0 THEN 1
        ELSE IF sampleCount = NaN THEN 0
        ELSE ToInt32(sampleCount)

velocityIncrementOf(this) ==
    LET cache == this.calculationCache
        velocityMag == getMagnitude(Vec2(cache.vx, cache.vy))
        sampleCount ==
            MathMin(Unit ++ MathCeil(Div(velocityMag,
                                         MathMin(Mul(cache.width, Half),
                                                 Mul(cache.height, Half)))),
                    MAX_COLLISION_MULTI_SAMPLE_COUNT * Unit)
    IN  IF velocityMag = 0 THEN ZeroVec
        ELSE multiply(Vec2(Div(cache.vx, velocityMag),
                           Div(cache.vy, velocityMag)),
                      Div(velocityMag, sampleCount))

sampleStart(this) ==
    LET cache == this.calculationCache
    IN  IF getMagnitude(Vec2(cache.vx, cache.vy)) = 0 THEN this
        ELSE moveTo(this, Vec2(this.position.x -- cache.vx,
                               this.position.y -- cache.vy))

\* this.checkCollision(physObj): the two bodies and collisionData after it.
\* One sample where the body is, or the samples along its last move.
checkCollision(this, physObj) ==
    IF ~checkBroadPhaseCollision(this.calculationCache, physObj.calculationCache)
    THEN [this |-> this, physObj |-> physObj, data |-> NoCollisionData,
          threw |-> FALSE]
    ELSE sampleLoop(sampleStart(this), physObj, 0, sampleCountOf(this),
                    velocityIncrementOf(this), NoCollisionData)

\* 0.0001 and 0.00001 lie below the resolution of the fixed point; they
\* are the smallest positive value.
COLLISION_DISPLACEMENT_SLOP == (Unit + 9999) \div 10^4
COLLISION_VELOCITY_SLOP == (Unit + 99999) \div 10^5

\* resolveCollisions, the copies of the new acceleration and velocity in
\* the calculation cache, which also moves by the displacement sum.
cacheResolved(this) ==
    [this EXCEPT !.calculationCache =
        [@ EXCEPT !.ax = this.acceleration.x, !.ay = this.acceleration.y,
                  !.vx = this.velocity.x, !.vy = this.velocity.y,
                  !.x = @ ++ this.collisionDisplacementSum.x,
                  !.y = @ ++ this.collisionDisplacementSum.y]]

\* resolveCollisions without its guard: the sums are applied to every body.
resolveCollisionsUnguarded(this) ==
    [cacheResolved(
         [this EXCEPT
            !.velocity = add(this.collisionMomentumSum,
                             this.collisionSurfaceImpulseSum),
            !.position = add(@, this.collisionDisplacementSum)])
       EXCEPT !.collisionDisplacementSum = multiply(@, 0),
              !.collisionMomentumSum = multiply(@, 0),
              !.collisionSurfaceImpulseSum = multiply(@, 0)]

resolveCollisions(this) ==
    LET impulseSumDirection == normalize(this.collisionSurfaceImpulseSum)
        vx == this.collisionMomentumSum.x ++ this.collisionSurfaceImpulseSum.x
        vy == this.collisionMomentumSum.y ++ this.collisionSurfaceImpulseSum.y
    IN  [(IF /\ ~this.fixed
             /\ \/ Ge(MathAbs(this.collisionDisplacementSum.x),
                      COLLISION_DISPLACEMENT_SLOP)
                \/ Ge(MathAbs(this.collisionDisplacementSum.y),
                      COLLISION_DISPLACEMENT_SLOP)
          THEN cacheResolved(
                   [this EXCEPT
                      !.acceleration =
                          multiply(impulseSumDirection,
                                   dot(this.acceleration, impulseSumDirection)),
                      !.velocity =
                          Vec2(IF Lt(MathAbs(vx), COLLISION_VELOCITY_SLOP)
                               THEN 0 ELSE vx,
                               IF Lt(MathAbs(vy), COLLISION_VELOCITY_SLOP)
                               THEN 0 ELSE vy),
                      !.position = add(@, this.collisionDisplacementSum)])
          ELSE this)
         EXCEPT !.collisionDisplacementSum = multiply(@, 0),
                !.collisionSurfaceImpulseSum = multiply(@, 0),
                !.collisionMomentumSum = multiply(@, 0)]

---------------------------------------------------------------------------
(* Quadtree *)

MAX_OBJECTS == 10
MAX_LEVELS == 6

NewQuadtree(level, bounds) ==
    [level |-> level, objects |-> <<>>, bounds |-> bounds, hasNodes |-> FALSE]

\* A tree is a function from paths (sequences of child indices 0..3, the root
\* being <<>>) to nodes; nodes[i] of the node at p is the node at Append(p, i).

clear(t) ==
    [p \in {<<>>} |-> [t[<<>>] EXCEPT !.objects = <<>>, !.hasNodes = FALSE]]

\* A split whose subnodes are two levels below the node.
splitTwoLevelsDown(t, p) ==
    [q \in (DOMAIN t) \cup {Append(p, i) : i \in 0..3} |->
        IF q = p THEN [t[p] EXCEPT !.hasNodes = TRUE]
        ELSE IF q \in DOMAIN t THEN t[q]
        ELSE NewQuadtree(t[p].level + 2,
                         [x |-> t[p].bounds.x, y |-> t[p].bounds.y,
                          width |-> RoundOr0(Shr1(t[p].bounds.width)),
                          height |-> RoundOr0(Shr1(t[p].bounds.height))])]

split(t, p) ==
    LET b == t[p].bounds
        halfWidth == RoundOr0(Shr1(b.width))
        halfHeight == RoundOr0(Shr1(b.height))
        x == RoundOr0(b.x)
        y == RoundOr0(b.y)
        lvl == t[p].level + 1
        kids == {Append(p, i) : i \in 0..3}
        nb(i) == [x |-> IF i \in {0, 3} THEN x + halfWidth ELSE x,
                  y |-> IF i \in {2, 3} THEN y + halfHeight ELSE y,
                  width |-> halfWidth, height |-> halfHeight]
    IN  [q \in (DOMAIN t) \cup kids |->
            IF q = p THEN [t[p] EXCEPT !.hasNodes = TRUE]
            ELSE IF q \in kids THEN NewQuadtree(lvl, nb(q[Len(q)]))
            ELSE t[q]]

getIndex(bounds, c) ==
    LET index(left, right, topQuadrant, bottomQuadrant) ==
            IF left
            THEN (IF topQuadrant THEN 1 ELSE IF bottomQuadrant THEN 2 ELSE 4)
            ELSE IF right
            THEN (IF topQuadrant THEN 0 ELSE IF bottomQuadrant THEN 3 ELSE 5)
            ELSE IF topQuadrant /\ ~bottomQuadrant THEN 6
            ELSE IF bottomQuadrant /\ ~topQuadrant THEN 7
            ELSE 0 - 1
        within(verticalMidpoint, horizontalMidpoint) ==
            index(Lt(c.x ++ Shr1(c.aabbWidth), verticalMidpoint),
                  Gt(c.x -- Shr1(c.aabbWidth), verticalMidpoint),
                  Lt(c.y ++ Shr1(c.aabbHeight), horizontalMidpoint),
                  Gt(c.y -- Shr1(c.aabbHeight), horizontalMidpoint))
    IN  within(bounds.x ++ Shr1(bounds.width), bounds.y ++ Shr1(bounds.height))

RemoveAt(s, i) == SubSeq(s, 1, i - 1) \o SubSeq(s, i + 1, Len(s))

RECURSIVE insert(_, _, _, _)
RECURSIVE redistribute(_, _, _, _)

\* this.insert(physObj) on the node at p; oc maps each wflId to its cache.
insert(t, oc, p, b) ==
    LET index == getIndex(t[p].bounds, oc[b])
        stored == [t EXCEPT ![p].objects = Append(@, b)]
    IN  IF t[p].hasNodes /\ index > 0 - 1 /\ index < 4
        THEN insert(t, oc, Append(p, index), b)
        ELSE IF Len(stored[p].objects) > MAX_OBJECTS /\ t[p].level < MAX_LEVELS
        THEN redistribute(IF t[p].hasNodes THEN stored ELSE split(stored, p),
                          oc, p, 1)
        ELSE stored

\* The while loop of insert, from position i (1-based) of this.objects.
redistribute(t, oc, p, i) ==
    LET index == getIndex(t[p].bounds, oc[t[p].objects[i]])
    IN  IF i > Len(t[p].objects) THEN t
        ELSE IF index > 0 - 1 /\ index < 4
        THEN redistribute(insert([t EXCEPT ![p].objects = RemoveAt(@, i)],
                                 oc, Append(p, index), t[p].objects[i]),
                          oc, p, i)
        ELSE redistribute(t, oc, p, i + 1)

\* The children retrieve visits for an index, in the order of the switch.
retrieveNodes(index) ==
    CASE index = 4 -> <<1, 2>>
      [] index = 5 -> <<0, 3>>
      [] index = 6 -> <<0, 1>>
      [] index = 7 -> <<2, 3>>
      [] index = 0 - 1 -> <<0, 1, 2, 3>>
      [] OTHER -> <<index>>

RECURSIVE retrieve(_, _, _, _, _)
RECURSIVE retrieveEach(_, _, _, _, _, _)

\* A retrieve that looks at the node itself and at none of its subnodes.
retrieveOwnObjects(t, oc, p, list, b) == list \o t[p].objects

\* this.retrieve(objs, physObj) on the node at p: the list objs afterwards.
retrieve(t, oc, p, list, b) ==
    LET below == IF t[p].hasNodes
                 THEN retrieveEach(t, oc, p, list, b,
                                   retrieveNodes(getIndex(t[p].bounds, oc[b])))
                 ELSE list
    IN  below \o t[p].objects

retrieveEach(t, oc, p, list, b, kids) ==
    IF kids = <<>> THEN list
    ELSE retrieveEach(t, oc, p, retrieve(t, oc, Append(p, Head(kids)), list, b),
                      b, Tail(kids))

Caches(os) == [b \in DOMAIN os |-> os[b].calculationCache]

\* Every body stored anywhere in the tree.
Stored(t) == UNION {Range(t[p].objects) : p \in DOMAIN t}

---------------------------------------------------------------------------
(* Quadtree, the variant that caches indices and retrievals *)

MAX_LEVELS_CACHED == 5

\* customData.quadTreeIndex is undefined on a new object (customData = {})
\* and null while insert recomputes it; both are kept apart from the indices
\* -1..7.  undefined > -1 is false, as in the code.
Undefined == 0 - 3
Null == 0 - 2

\* The tree and what hangs on it: nodes as above, cachedRetrievals[p] the
\* cachedRetrievals of the node at p (absent while it is {}), and
\* quadTreeIndex[b] the customData.quadTreeIndex of the body b.
NewCachedTree(bounds) ==
    [nodes |-> [p \in {<<>>} |-> NewQuadtree(0, bounds)],
     cachedRetrievals |-> <<>>, quadTreeIndex |-> <<>>,
     retrieved |-> 0, list |-> <<>>, threw |-> FALSE]

CachedAt(q, p) ==
    IF p \in DOMAIN q.cachedRetrievals THEN q.cachedRetrievals[p] ELSE <<>>

\* clear(): objects and nodes go; "this.cachedRetreivals = {}" sets another
\* property, so the root keeps its cachedRetrievals.
clearCached(q) ==
    [q EXCEPT !.nodes = [p \in {<<>>} |->
                            [q.nodes[<<>>] EXCEPT !.objects = <<>>,
                                                  !.hasNodes = FALSE]],
              !.cachedRetrievals =
                  [p \in DOMAIN q.cachedRetrievals \cap {<<>>} |-> @[p]]]

\* What getIndex(physObj) returns on the node at p ...
getIndexCached(q, oc, p, b) ==
    IF q.quadTreeIndex[b] # Null THEN q.quadTreeIndex[b]
    ELSE getIndex(q.nodes[p].bounds, oc[b])

\* ... and what it leaves behind.
getIndexCaches(q, oc, p, b) ==
    [q EXCEPT !.quadTreeIndex[b] = getIndexCached(q, oc, p, b)]

RECURSIVE insertCached(_, _, _, _)
RECURSIVE redistributeCached(_, _, _, _, _)

\* insert(physObj) below its first return: the push and the loop.
pushCached(q, oc, p, b) ==
    LET stored == [q EXCEPT !.nodes[p].objects = Append(@, b)]
    IN  IF /\ Len(stored.nodes[p].objects) > MAX_OBJECTS
           /\ q.nodes[p].level < MAX_LEVELS_CACHED
        THEN redistributeCached(
                 IF q.nodes[p].hasNodes THEN stored
                 ELSE [stored EXCEPT !.nodes = split(@, p)],
                 oc, p, 1, Len(stored.nodes[p].objects))
        ELSE stored

insertCached(q, oc, p, b) ==
    LET reset == [q EXCEPT !.quadTreeIndex[b] = Null]
        index == getIndexCached(reset, oc, p, b)
    IN  IF ~q.nodes[p].hasNodes THEN pushCached(q, oc, p, b)
        ELSE IF index > 0 - 1 /\ index < 4
        THEN insertCached(getIndexCaches(reset, oc, p, b), oc,
                          Append(p, index), b)
        ELSE pushCached(getIndexCaches(reset, oc, p, b), oc, p, b)

\* The while loop of insert: i (1-based) goes up to the length the list had
\* before the loop, and moves on after a splice as well.
redistributeCached(q, oc, p, i, objectsLength) ==
    LET curObj == q.nodes[p].objects[i]
        index == getIndexCached(q, oc, p, curObj)
    IN  IF i > objectsLength THEN q
        ELSE IF i > Len(q.nodes[p].objects)
        THEN redistributeCached(q, oc, p, i + 1, objectsLength)
        ELSE IF index > 0 - 1 /\ index < 4
        THEN redistributeCached(
                 insertCached([getIndexCaches(q, oc, p, curObj) EXCEPT
                                  !.nodes[p].objects = RemoveAt(@, i)],
                              oc, Append(p, index), curObj),
                 oc, p, i + 1, objectsLength)
        ELSE redistributeCached(getIndexCaches(q, oc, p, curObj), oc, p,
                                i + 1, objectsLength)

\* objs after the statement "objs.concat(other);": concat builds a new array,
\* which the statement drops, and leaves objs as it is.
afterConcat(list, other) == list

\* this.cachedRetrievals[index] = retrievals on the node at p.
withCachedRetrieval(q, p, index, retrievals) ==
    [q EXCEPT !.cachedRetrievals =
        [k \in DOMAIN q.cachedRetrievals \cup {p} |->
            IF k = p
            THEN [n \in DOMAIN CachedAt(q, p) \cup {index} |->
                     IF n = index THEN retrievals ELSE CachedAt(q, p)[n]]
            ELSE q.cachedRetrievals[k]]]

RECURSIVE retrieveCached(_, _, _, _, _)
RECURSIVE retrieveCachedEach(_, _, _, _, _, _)

\* The calls of the switch of retrieve, all with the array retrievals.
retrieveCachedEach(q, oc, p, retrievals, b, kids) ==
    LET r == retrieveCached(q, oc, Append(p, Head(kids)), retrievals, b)
    IN  IF kids = <<>>
        THEN [q EXCEPT !.list = retrievals, !.threw = FALSE]
        ELSE IF r.threw THEN r
        ELSE retrieveCachedEach(r, oc, p, r.list, b, Tail(kids))

\* retrieve(objs, physObj) on the node at p, the index being known: .list is
\* the array returned and .threw says that this.nodes[index] was undefined.
retrieveCachedAt(q, oc, p, list, b, index) ==
    LET r == retrieveCachedEach(q, oc, p, <<>>, b, retrieveNodes(index))
    IN  IF index \in DOMAIN CachedAt(q, p)
        THEN [q EXCEPT !.list = afterConcat(
                                    afterConcat(list, CachedAt(q, p)[index]),
                                    q.nodes[p].objects),
                       !.threw = FALSE]
        ELSE IF index = Undefined THEN [q EXCEPT !.list = list, !.threw = TRUE]
        ELSE IF r.threw THEN [r EXCEPT !.list = list]
        ELSE [withCachedRetrieval(r, p, index, r.list) EXCEPT
                !.list = afterConcat(afterConcat(list, r.list),
                                     r.nodes[p].objects)]

retrieveCached(q, oc, p, list, b) ==
    IF q.nodes[p].hasNodes
    THEN retrieveCachedAt(getIndexCaches(q, oc, p, b), oc, p, list, b,
                          getIndexCached(q, oc, p, b))
    ELSE [q EXCEPT !.list = afterConcat(list, q.nodes[p].objects),
                   !.threw = FALSE]

---------------------------------------------------------------------------
(* Scene: construction, adding and removing, the bucket grid *)

BUCKET_PADDING_RATIO == Half
DEFAULT_MAX_COLLISION_ITERATIONS == 8
DEFAULT_FOLLOW_RATE == Half

\* The canvas of the scenes: 8 by 8.
CanvasSize == 8 * Unit


\* Scene.reset(), and the fields the constructor sets.  _buckets = [[]] is
\* one column without a cell.  threw tells that the last handler ended in a
\* TypeError.  The fields from pc on are the position inside update(dt)
\* and the record of what the tick has done so far; removed holds the
\* bodies whose removeGameObject returned and that were not added since,
\* removeThrew those for which a removeGameObject threw.
NewScene ==
    [layer |-> <<>>,
     persistingGameObjects |-> <<>>,
     nonPartitionedGameObjects |-> <<>>,
     nearbyGameObjects |-> <<>>,
     gameObjectsToUpdate |-> <<>>,
     buckets |-> [nx |-> 1, ny |-> 0, cell |-> [c \in {} |-> <<>>]],
     bucketConfig |-> [size |-> Mul(MathMax(CanvasSize, CanvasSize), Half),
                       minX |-> PosInf, minY |-> PosInf,
                       maxX |-> NegInf, maxY |-> NegInf,
                       forceCalc |-> FALSE],
     camera |-> [position |-> ZeroVec, followObj |-> 0],
     collisionIterations |-> DEFAULT_MAX_COLLISION_ITERATIONS,
     collisionObjects |-> <<>>,
     collisionObjectCache |-> {},
     distancePairCache |-> <<>>,
     collisionPairCache |-> <<>>,
     quadtreeCache |-> <<>>,
     threw |-> FALSE,
     pc |-> "idle", dt |-> 0, ticks |-> 0, calls |-> 0,
     k |-> 0, needBroadPhase |-> <<>>, needNarrowPhase |-> <<>>,
     i |-> 1, j |-> 1, obj0 |-> 0, obj1 |-> 0, data |-> NoCollisionData,
     passes |-> 0, emptyPass |-> FALSE,
     removed |-> {}, removeThrew |-> {}, bucketed |-> {}, inserted |-> {}, updated |-> {},
     insertedAt |-> <<>>, checked |-> <<>>, overlapped |-> <<>>]

World(os, t, sc) == [objs |-> os, qt |-> t, scene |-> sc]

Cells(buckets) == (0..(buckets.nx - 1)) \X (0..(buckets.ny - 1))
IndexOf(s, b) ==
    IF b \in Range(s) THEN CHOOSE i \in DOMAIN s :
                               s[i] = b /\ \A j \in 1..(i - 1) : s[j] # b
    ELSE 0
\* array.splice(array.indexOf(b), 1) when b is in the array.
Without(s, b) == IF IndexOf(s, b) = 0 THEN s ELSE RemoveAt(s, IndexOf(s, b))

\* A body counted as out of range only once it has passed a bound.
outOfBucketsRangeBeyond(config, c) ==
    \/ Lt(c.x -- c.aabbHalfWidth, config.minX)
    \/ Gt(c.x ++ c.aabbHalfWidth, config.maxX)
    \/ Lt(c.y -- c.aabbHalfHeight, config.minY)
    \/ Gt(c.y ++ c.aabbHalfHeight, config.maxY)

outOfBucketsRange(config, c) ==
    \/ Le(c.x -- c.aabbHalfWidth, config.minX)
    \/ Ge(c.x ++ c.aabbHalfWidth, config.maxX)
    \/ Le(c.y -- c.aabbHalfHeight, config.minY)
    \/ Ge(c.y ++ c.aabbHalfHeight, config.maxY)

\* The quotient without a fallback: 0/0 stays NaN and is used as the index.
bucketQuotientUnguarded(count, v, min, max) ==
    IF ~Finite(max -- min) \/ ~Finite(v -- min) \/ max -- min <= 0
    THEN [nan |-> FALSE, floor |-> NaN, trunc |-> NaN]
    ELSE [nan |-> FALSE,
          floor |-> Mul((count - 1) * Unit, v -- min) \div (max -- min),
          trunc |-> TruncDiv(Mul((count - 1) * Unit, v -- min), max -- min)]

\* (count - 1) * (v - min) / (max - min), the quotient being taken exactly:
\* whether it is NaN, its floor, and its truncation toward zero.
bucketQuotient(count, v, min, max) ==
    LET quotient(n, d) ==
            IF n = NaN \/ d = NaN \/ (IsInf(n) /\ IsInf(d)) \/ (d = 0 /\ n = 0)
            THEN [nan |-> TRUE, floor |-> 0, trunc |-> 0]
            ELSE IF IsInf(d) THEN [nan |-> FALSE, floor |-> 0, trunc |-> 0]
            ELSE IF d = 0 \/ IsInf(n)
            THEN [nan |-> FALSE,
                  floor |-> IF (n < 0) = (d < 0) THEN PosInf ELSE NegInf,
                  trunc |-> 0]
            ELSE [nan |-> FALSE,
                  floor |-> IF d > 0 THEN n \div d ELSE (0 - n) \div (0 - d),
                  trunc |-> TruncDiv(n, d)]
    IN  quotient(Mul((count - 1) * Unit, v -- min), max -- min)

\* Math.max(Math.ceil(extent / size), 1): NaN if the extent is NaN.
totalBuckets(extent, size) == MathMax(MathCeil(Div(extent, size)), Unit)
CountOf(total) == IF total = NaN THEN 0 ELSE ToInt32(total)

\* A lookup that returns every cell of the grid.
findAllBucketIndices(sc, center, bucketRadius) ==
    [threw |-> sc.buckets.nx = 0,
     cells |-> [n \in 1..(sc.buckets.nx * sc.buckets.ny) |->
                   <<(n - 1) \div sc.buckets.ny, (n - 1) % sc.buckets.ny>>]]

\* _findSurroundingBucketIndices(center, bucketRadius): the cells <<x, y>>
\* in the order of the two loops; it throws when _buckets has no column.
findSurroundingBucketIndices(sc, center, bucketRadius) ==
    LET totalBucketsHorizontal == sc.buckets.nx
        totalBucketsVertical == sc.buckets.ny
        side == 2 * bucketRadius + 1
        floorOr0(q) == IF q.nan THEN 0 ELSE q.floor
        near(bucketX, bucketY) ==
            SelectSeq([n \in 1..(side * side) |->
                          <<bucketX - bucketRadius + ((n - 1) \div side),
                            bucketY - bucketRadius + ((n - 1) % side)>>],
                      LAMBDA c : /\ c[1] >= 0 /\ c[2] >= 0
                                 /\ c[1] < totalBucketsHorizontal
                                 /\ c[2] < totalBucketsVertical)
    IN  [threw |-> totalBucketsHorizontal = 0,
         cells |-> near(floorOr0(bucketQuotient(totalBucketsHorizontal, center.x,
                                                sc.bucketConfig.minX,
                                                sc.bucketConfig.maxX)),
                        floorOr0(bucketQuotient(totalBucketsVertical, center.y,
                                                sc.bucketConfig.minY,
                                                sc.bucketConfig.maxY)))]

RECURSIVE Flatten(_)
Flatten(ss) == IF ss = <<>> THEN <<>> ELSE Head(ss) \o Flatten(Tail(ss))

\* _findSurroundingGameObjects(center, bucketRadius)
findSurroundingGameObjects(sc, center, bucketRadius) ==
    LET bodies(cs) == Flatten([n \in 1..Len(cs) |-> sc.buckets.cell[cs[n]]])
    IN  bodies(findSurroundingBucketIndices(sc, center, bucketRadius).cells)

\* Scene.addGameObject(obj, 0, persists)
addGameObject(w, b, persists) ==
    LET o == cacheCalculations(w.objs[b])
        sc == w.scene
    IN  World([w.objs EXCEPT ![b] = o], w.qt,
              [sc EXCEPT
                 !.layer = Append(@, b),
                 !.bucketConfig.forceCalc =
                     @ \/ outOfBucketsRange(sc.bucketConfig, o.calculationCache),
                 !.nonPartitionedGameObjects = Append(@, b),
                 !.persistingGameObjects = IF persists THEN Append(@, b) ELSE @,
                 !.threw = FALSE,
                 !.removed = @ \ {b}])

\* Scene.removeGameObject(obj).  The bucket is looked up from the cached
\* position; with no cell there the code reads .x of undefined and throws,
\* the lists after that line being left as they are.
removeGameObject(w, b) ==
    LET removed == [w.scene EXCEPT !.layer = Without(@, b), !.threw = FALSE]
        from(r) ==
            IF r.threw \/ r.cells = <<>>
            THEN [removed EXCEPT !.threw = TRUE, !.removeThrew = @ \cup {b}]
            ELSE [removed EXCEPT
                    !.buckets.cell[r.cells[1]] = Without(@, b),
                    !.persistingGameObjects = Without(@, b),
                    !.nearbyGameObjects = Without(@, b),
                    !.gameObjectsToUpdate = Without(@, b),
                    !.removed = @ \cup {b}]
    IN  World(w.objs, w.qt,
              from(findSurroundingBucketIndices(w.scene,
                                                w.objs[b].calculationCache, 0)))

\* Camera.follow(obj) and Camera.update(dt)
follow(camera, b) == [camera EXCEPT !.followObj = b]
cameraUpdate(camera, os) ==
    IF camera.followObj = 0 THEN camera
    ELSE LET dx == Mul(DEFAULT_FOLLOW_RATE,
                       camera.position.x -- os[camera.followObj].position.x)
             dy == Mul(DEFAULT_FOLLOW_RATE,
                       camera.position.y -- os[camera.followObj].position.y)
         IN  [camera EXCEPT !.position =
                 Vec2(@.x -- (IF Lt(MathAbs(dx), Half) THEN 0 ELSE dx),
                      @.y -- (IF Lt(MathAbs(dy), Half) THEN 0 ELSE dy))]

\* The extent of the cached positions of the bodies of a list.
RECURSIVE extentOf(_, _, _)
extentOf(os, all, e) ==
    IF all = <<>> THEN e
    ELSE LET cache == os[Head(all)].calculationCache
         IN  extentOf(os, Tail(all),
                      [minX |-> MathMin(cache.x, e.minX),
                       minY |-> MathMin(cache.y, e.minY),
                       maxX |-> MathMax(cache.x, e.maxX),
                       maxY |-> MathMax(cache.y, e.maxY)])

\* _createBuckets(gameObjects)
createBuckets(sc, os, gameObjects) ==
    LET grid(totalBucketsHorizontal, totalBucketsVertical) ==
            [nx |-> totalBucketsHorizontal, ny |-> totalBucketsVertical,
             cell |-> [c \in (0..(totalBucketsHorizontal - 1))
                              \X (0..(totalBucketsVertical - 1)) |-> <<>>]]
        columns(totalBucketsHorizontal, totalBucketsVertical) ==
            grid(totalBucketsHorizontal,
                 IF totalBucketsHorizontal = 0 THEN 0 ELSE totalBucketsVertical)
        padded(e, dx, dy) ==
            [sc EXCEPT
               !.buckets =
                   columns(CountOf(totalBuckets(
                               Mul(dx, Unit ++ Mul(2 * Unit, BUCKET_PADDING_RATIO)),
                               sc.bucketConfig.size)),
                           CountOf(totalBuckets(
                               Mul(dy, Unit ++ Mul(2 * Unit, BUCKET_PADDING_RATIO)),
                               sc.bucketConfig.size))),
               !.bucketConfig.minX = e.minX -- Mul(dx, BUCKET_PADDING_RATIO),
               !.bucketConfig.maxX = e.maxX ++ Mul(dx, BUCKET_PADDING_RATIO),
               !.bucketConfig.minY = e.minY -- Mul(dy, BUCKET_PADDING_RATIO),
               !.bucketConfig.maxY = e.maxY ++ Mul(dy, BUCKET_PADDING_RATIO)]
        around(e) == padded(e, e.maxX -- e.minX, e.maxY -- e.minY)
    IN  around(extentOf(os, gameObjects,
                        [minX |-> PosInf, minY |-> PosInf,
                         maxX |-> NegInf, maxY |-> NegInf]))

\* The cell _partitionGameObjectsIntoBuckets computes for a cached position.
bucketOf(sc, cache) ==
    LET config == sc.bucketConfig
        truncOr0(total, q) == IF q.nan \/ total = 0 THEN 0 ELSE q.trunc
        along(total, v, min, max) ==
            truncOr0(total, bucketQuotient(total, v, min, max))
    IN  Vec2(along(CountOf(totalBuckets(config.maxX -- config.minX, config.size)),
                   cache.x, config.minX, config.maxX),
             along(CountOf(totalBuckets(config.maxY -- config.minY, config.size)),
                   cache.y, config.minY, config.maxY))

\* _partitionGameObjectsIntoBuckets(gameObjects); it throws at the first
\* body whose cell does not exist.
RECURSIVE partitionGameObjectsIntoBuckets(_, _)
partitionGameObjectsIntoBuckets(w, gameObjects) ==
    LET put(b, at) ==
            IF <<at.x, at.y>> \notin Cells(w.scene.buckets)
            THEN World([w.objs EXCEPT ![b].bucketPosition = at], w.qt,
                       [w.scene EXCEPT !.threw = TRUE])
            ELSE partitionGameObjectsIntoBuckets(
                     World([w.objs EXCEPT ![b].bucketPosition = at], w.qt,
                           [w.scene EXCEPT
                              !.buckets.cell[<<at.x, at.y>>] = Append(@, b),
                              !.bucketed = @ \cup {b}]),
                     Tail(gameObjects))
    IN  IF gameObjects = <<>> THEN w
        ELSE put(Head(gameObjects),
                 bucketOf(w.scene, w.objs[Head(gameObjects)].calculationCache))

RECURSIVE clearCells(_, _)
clearCells(buckets, cs) ==
    IF cs = <<>> THEN buckets
    ELSE clearCells([buckets EXCEPT !.cell[Head(cs)] = <<>>], Tail(cs))

\* _updateBuckets()
updateBuckets(w) ==
    LET sc == w.scene
        forceCalc ==
            \/ sc.bucketConfig.forceCalc
            \/ \E n \in DOMAIN sc.gameObjectsToUpdate :
                  outOfBucketsRange(sc.bucketConfig,
                      w.objs[sc.gameObjectsToUpdate[n]].calculationCache)
        incremental(near) ==
            IF near.threw THEN World(w.objs, w.qt, [sc EXCEPT !.threw = TRUE])
            ELSE partitionGameObjectsIntoBuckets(
                     World(w.objs, w.qt,
                           [sc EXCEPT !.buckets = clearCells(@, near.cells)]),
                     sc.gameObjectsToUpdate \o sc.nonPartitionedGameObjects)
        quadtree(config) ==
            [p \in {<<>>} |->
                NewQuadtree(0, [x |-> config.minX, y |-> config.minY,
                                width |-> config.maxX -- config.minX,
                                height |-> config.maxY -- config.minY])]
        done(parted) ==
            IF parted.scene.threw THEN parted
            ELSE World(parted.objs, quadtree(parted.scene.bucketConfig),
                       [parted.scene EXCEPT !.nonPartitionedGameObjects = <<>>,
                                            !.bucketConfig.forceCalc = FALSE])
    IN  done(IF forceCalc
             THEN partitionGameObjectsIntoBuckets(
                      World(w.objs, w.qt, createBuckets(sc, w.objs, sc.layer)),
                      sc.layer)
             ELSE incremental(findSurroundingBucketIndices(sc, sc.camera.position, 1)))

\* getGameObjectsToUpdate()
getGameObjectsToUpdate(sc, os) ==
    LET far(neighborBucketIndices) ==
            SelectSeq(sc.persistingGameObjects,
                      LAMBDA b : \A n \in DOMAIN neighborBucketIndices :
                          ~(/\ os[b].bucketPosition.x = neighborBucketIndices[n][1]
                            /\ os[b].bucketPosition.y = neighborBucketIndices[n][2]))
    IN  sc.nearbyGameObjects
        \o far(findSurroundingBucketIndices(sc, sc.camera.position, 1).cells)

---------------------------------------------------------------------------
(* Scene: the collision pipeline of a tick *)

\* A pair hashed under its first key only.
pairHashKeysOneWay(wflId0, wflId1) == {<<wflId0, wflId1>>}

\* The two keys wflId0 + "_" + wflId1 and wflId1 + "_" + wflId0 of a pair.
pairHashKeys(wflId0, wflId1) == {<<wflId0, wflId1>>, <<wflId1, wflId0>>}

SetKeys(f, keys, v) ==
    [key \in DOMAIN f \cup keys |-> IF key \in keys THEN v ELSE f[key]]

\* _resetCollisionData(gameObjects)
RECURSIVE resetBodies(_, _)
resetBodies(os, gameObjects) ==
    IF gameObjects = <<>> THEN os
    ELSE resetBodies([os EXCEPT ![Head(gameObjects)] =
                         [@ EXCEPT !.previousVelocity = os[Head(gameObjects)].velocity,
                                   !.collisionDisplacementSum = ZeroVec,
                                   !.collisionSurfaceImpulseSum = ZeroVec,
                                   !.collisionMomentumSum = ZeroVec]],
                     Tail(gameObjects))
resetCollisionData(w, gameObjects) ==
    World(resetBodies(w.objs, gameObjects), w.qt,
          [w.scene EXCEPT !.collisionObjects = <<>>,
                          !.collisionObjectCache = {},
                          !.collisionPairCache = <<>>,
                          !.distancePairCache = <<>>,
                          !.quadtreeCache = <<>>])

\* canCollide that lets every pair through.
canCollideAlways(o, physObj) == TRUE

\* canCollide, the hook a game overrides: ignores holds the bodies for which
\* the body's canCollide returns false; it is empty for PhysicsObject itself,
\* whose canCollide returns true.
canCollide(o, physObj) == physObj.wflId \notin o.ignores

\* The inner loop of _cacheData for obj0 over the retrieved bodies: the
\* distance cache, the pair cache and the probable collisions so far.
RECURSIVE cacheProbable(_, _, _, _)
cacheProbable(os, wflId0, possibleCollisions, acc) ==
    IF possibleCollisions = <<>> THEN acc
    ELSE
    LET wflId1 == Head(possibleCollisions)
        c0 == os[wflId0].calculationCache
        c1 == os[wflId1].calculationCache
        distSquared == Mul(c0.px -- c1.px, c0.px -- c1.px)
                       ++ Mul(c0.py -- c1.py, c0.py -- c1.py)
        keys == pairHashKeys(wflId0, wflId1)
    IN  IF /\ checkBroadPhaseCollision(c0, c1)
           /\ canCollide(os[wflId0], os[wflId1])
           /\ canCollide(os[wflId1], os[wflId0])
           /\ wflId0 # wflId1
           /\ <<wflId0, wflId1>> \notin DOMAIN acc.distancePairCache
        THEN cacheProbable(os, wflId0, Tail(possibleCollisions),
                 [distancePairCache |-> SetKeys(acc.distancePairCache, keys, distSquared),
                  collisionPairCache |-> SetKeys(acc.collisionPairCache, keys, FALSE),
                  probableCollisions |-> Append(acc.probableCollisions, wflId1)])
        ELSE cacheProbable(os, wflId0, Tail(possibleCollisions), acc)

\* The outer loop of _cacheData.
RECURSIVE cacheEach(_, _, _)
cacheEach(w, gameObjects, acc) ==
    LET wflId0 == Head(gameObjects)
        next(r) ==
            cacheEach(w, Tail(gameObjects),
                [distancePairCache |-> r.distancePairCache,
                 collisionPairCache |-> r.collisionPairCache,
                 quadtreeCache |->
                     IF r.probableCollisions # <<>>
                     THEN [b \in DOMAIN acc.quadtreeCache \cup {wflId0} |->
                              IF b = wflId0 THEN r.probableCollisions
                              ELSE acc.quadtreeCache[b]]
                     ELSE acc.quadtreeCache,
                 needNarrowPhase |->
                     IF r.probableCollisions # <<>>
                     THEN Append(acc.needNarrowPhase, wflId0)
                     ELSE acc.needNarrowPhase])
    IN  IF gameObjects = <<>> THEN acc
        ELSE next(cacheProbable(w.objs, wflId0,
                      retrieve(w.qt, Caches(w.objs), <<>>, <<>>, wflId0),
                      [distancePairCache |-> acc.distancePairCache,
                       collisionPairCache |-> acc.collisionPairCache,
                       probableCollisions |-> <<>>]))

\* _cacheData(gameObjects): the scene after it, needNarrowPhase being the
\* value returned.
cacheData(w, gameObjects) ==
    LET cached(r) ==
            World(w.objs, w.qt,
                  [w.scene EXCEPT !.distancePairCache = r.distancePairCache,
                                  !.collisionPairCache = r.collisionPairCache,
                                  !.quadtreeCache = r.quadtreeCache,
                                  !.needNarrowPhase = r.needNarrowPhase])
    IN  cached(cacheEach(w, gameObjects,
                   [distancePairCache |-> <<>>, collisionPairCache |-> <<>>,
                    quadtreeCache |-> <<>>, needNarrowPhase |-> <<>>]))

\* possibleCollisions.sort by the cached distance from obj0, nearest first.
\* d gives the distance of each body of the list.
RECURSIVE sortByDistance(_, _, _)
InsertByDistance(sorted, b, d) ==
    LET after == {n \in DOMAIN sorted : Lt(d[b] -- d[sorted[n]], 0)}
        at == IF after = {} THEN Len(sorted) + 1
              ELSE CHOOSE n \in after : \A m \in after : n <= m
    IN  SubSeq(sorted, 1, at - 1) \o <<b>> \o SubSeq(sorted, at, Len(sorted))
sortByDistance(list, sorted, d) ==
    IF list = <<>> THEN sorted
    ELSE sortByDistance(Tail(list), InsertByDistance(sorted, Head(list), d), d)

\* No exchange: a body keeps the velocity it had.
momentumOfKept(v, m, u, n) == v

\* The momentum one body takes from a collision: v and m are its own
\* previous velocity and mass, u and n the other body's.
momentumOf(v, m, u, n) ==
    IF n = PosInf
    THEN Vec2(Mul(2 * Unit, u.x) -- v.x, Mul(2 * Unit, u.y) -- v.y)
    ELSE Vec2(Div(Mul(v.x, m -- n), m ++ n)
                  ++ Div(Mul(Mul(u.x, 2 * Unit), n), m ++ n),
              Div(Mul(v.y, m -- n), m ++ n)
                  ++ Div(Mul(Mul(u.y, 2 * Unit), n), m ++ n))

\* The part of _finalizeCollision for one body: its share of the depth along
\* the direction, and its momentum.
accumulate(sc, o, direction, depth, momentum, restitution) ==
    IF depth = 0 THEN [scene |-> sc, obj |-> o]
    ELSE [scene |->
              IF o.wflId \in sc.collisionObjectCache THEN sc
              ELSE [sc EXCEPT !.collisionObjectCache = @ \cup {o.wflId},
                              !.collisionObjects =
                                  IF o.fixed THEN @ ELSE Append(@, o.wflId)],
          obj |-> [o EXCEPT
              !.collisionDisplacementSum =
                  Vec2(@.x -- Mul(direction.x, depth),
                       @.y -- Mul(direction.y, depth)),
              !.collisionMomentumSum =
                  Vec2(@.x ++ Mul(momentum.x, restitution),
                       @.y ++ Mul(momentum.y, restitution))]]

\* _finalizeCollision(obj0, obj1, collisionData)
finalizeCollision(w, wflId0, wflId1, collisionData) ==
    LET obj0 == w.objs[wflId0]
        obj1 == w.objs[wflId1]
        direction == collisionData.direction
        m0 == IF obj0.fixed THEN PosInf ELSE obj0.mass
        m1 == IF obj1.fixed THEN PosInf ELSE obj1.mass
        v0 == obj0.previousVelocity
        v1 == obj1.previousVelocity
        resolved(a0, a1) ==
            World([w.objs EXCEPT ![wflId0] = resolveCollisions(a0.obj),
                                 ![wflId1] = resolveCollisions(a1.obj)],
                  w.qt, a1.scene)
        second(a0, depth1, restitution) ==
            resolved(a0, accumulate(a0.scene, obj1, multiply(direction, 0 - Unit),
                                    depth1, momentumOf(v1, m1, v0, m0), restitution))
        first(depth0, depth1, restitution) ==
            second(accumulate(w.scene, obj0, direction, depth0,
                              momentumOf(v0, m0, v1, m1), restitution),
                   depth1, restitution)
        shared(totalDepth) ==
            first(IF ~obj0.fixed /\ ~obj1.fixed THEN Mul(totalDepth, Half)
                  ELSE IF ~obj0.fixed THEN totalDepth ELSE 0,
                  IF ~obj0.fixed /\ ~obj1.fixed THEN Mul(totalDepth, Half)
                  ELSE IF ~obj0.fixed THEN 0 ELSE totalDepth,
                  Mul(obj0.restitution, obj1.restitution))
    IN  shared(collisionData.contactPoint.depth ++ Milli)

\* The onOverlap calls for obj0 if the other body were called back whether
\* or not it takes overlap events.
RECURSIVE overlapCallsBothWays(_, _, _)
overlapCallsBothWays(os, wflId0, possibleCollisions) ==
    IF possibleCollisions = <<>> THEN <<>>
    ELSE (IF checkBroadPhaseCollision(
                 os[wflId0].calculationCache,
                 os[Head(possibleCollisions)].calculationCache)
          THEN << <<wflId0, Head(possibleCollisions)>>,
                  <<Head(possibleCollisions), wflId0>> >>
          ELSE <<>>)
         \o overlapCallsBothWays(os, wflId0, Tail(possibleCollisions))

\* The body of the loop of _handleOverlaps for obj0: the onOverlap calls.
RECURSIVE overlapCalls(_, _, _)
overlapCalls(os, wflId0, possibleCollisions) ==
    IF possibleCollisions = <<>> THEN <<>>
    ELSE LET wflId1 == Head(possibleCollisions)
         IN  (IF checkBroadPhaseCollision(os[wflId0].calculationCache,
                                          os[wflId1].calculationCache)
              THEN <<<<wflId0, wflId1>>>>
                   \o (IF os[wflId1].allowOverlapEvents
                       THEN <<<<wflId1, wflId0>>>> ELSE <<>>)
              ELSE <<>>)
             \o overlapCalls(os, wflId0, Tail(possibleCollisions))

\* _handleOverlaps(gameObjects): the calls X.onOverlap(Y) it makes, as <<X, Y>>.
handleOverlaps(w, gameObjects) ==
    LET availableObjects ==
            SelectSeq(gameObjects, LAMBDA b : w.objs[b].allowOverlapEvents)
    IN  Flatten([n \in DOMAIN availableObjects |->
            overlapCalls(w.objs, availableObjects[n],
                IF availableObjects[n] \in DOMAIN w.scene.quadtreeCache
                THEN w.scene.quadtreeCache[availableObjects[n]]
                ELSE retrieve(w.qt, Caches(w.objs), <<>>, <<>>,
                              availableObjects[n]))])

---------------------------------------------------------------------------
(* Scene.update(dt), step by step *)

\* What a tick records about itself, cleared when the next one starts.
NewTick(sc, dt) ==
    [sc EXCEPT !.threw = FALSE, !.dt = dt, !.k = 0,
               !.needBroadPhase = <<>>, !.needNarrowPhase = <<>>,
               !.i = 1, !.j = 1, !.obj0 = 0, !.obj1 = 0,
               !.data = NoCollisionData,
               !.passes = 0, !.emptyPass = FALSE,
               !.bucketed = {}, !.inserted = {}, !.updated = {},
               !.insertedAt = <<>>, !.checked = <<>>, !.overlapped = <<>>]

\* A handler that threw leaves update(dt).
Thrown(w) ==
    World(w.objs, w.qt,
          [w.scene EXCEPT !.threw = TRUE, !.pc = "idle", !.ticks = @ + 1])

\* update(dt) up to the list of the bodies to update: _updateBuckets,
\* camera.update, _findSurroundingGameObjects, getGameObjectsToUpdate.
selectGameObjects(w, dt) ==
    LET chosen(w1, sc3) ==
            World(w1.objs, w1.qt,
                  [sc3 EXCEPT !.gameObjectsToUpdate =
                                  getGameObjectsToUpdate(sc3, w1.objs),
                              !.pc = "insert"])
        nearby(w1, sc2) ==
            IF sc2.buckets.nx = 0 THEN Thrown(World(w1.objs, w1.qt, sc2))
            ELSE chosen(w1, [sc2 EXCEPT !.nearbyGameObjects =
                                findSurroundingGameObjects(sc2,
                                                           sc2.camera.position, 1)])
        bucketsUpdated(w1) ==
            IF w1.scene.threw THEN Thrown(w1)
            ELSE nearby(w1, [w1.scene EXCEPT
                                !.camera = cameraUpdate(@, w1.objs)])
    IN  bucketsUpdated(updateBuckets(World(w.objs, w.qt, NewTick(w.scene, dt))))

\* The loop inserting every body to update, solid or not.
RECURSIVE insertEvery(_, _)
insertEvery(w, gameObjects) ==
    IF gameObjects = <<>> THEN w
    ELSE insertEvery(
             World(w.objs,
                   insert(w.qt, Caches(w.objs), <<>>, Head(gameObjects)),
                   [w.scene EXCEPT !.inserted = @ \cup {Head(gameObjects)}]),
             Tail(gameObjects))

\* The loop "if (obj.solid) this._quadtree.insert(obj)".
RECURSIVE insertSolid(_, _)
insertSolid(w, gameObjects) ==
    IF gameObjects = <<>> THEN w
    ELSE LET b == Head(gameObjects)
             c == w.objs[b].calculationCache
         IN  insertSolid(
                 IF w.objs[b].solid
                 THEN World(w.objs, insert(w.qt, Caches(w.objs), <<>>, b),
                            [w.scene EXCEPT
                               !.inserted = @ \cup {b},
                               !.insertedAt =
                                   [q \in DOMAIN @ \cup {b} |->
                                       IF q = b THEN Vec2(c.x, c.y) ELSE @[q]]])
                 ELSE w,
                 Tail(gameObjects))

\* The loop "obj.update(dt)".
RECURSIVE updateEach(_, _, _)
updateEach(os, gameObjects, dt) ==
    IF gameObjects = <<>> THEN os
    ELSE updateEach([os EXCEPT ![Head(gameObjects)] = update(@, dt)],
                    Tail(gameObjects), dt)

\* The loop "obj.cacheCalculations()".
RECURSIVE cacheEachBody(_, _)
cacheEachBody(os, gameObjects) ==
    IF gameObjects = <<>> THEN os
    ELSE cacheEachBody([os EXCEPT ![Head(gameObjects)] = cacheCalculations(@)],
                       Tail(gameObjects))

\* One turn of the inner loop of _findAllCollisions, for the candidate j of
\* the body i of needNarrowPhase: the pair is skipped if its key is set,
\* else checkCollision runs and, with a contact point, _finalizeCollision
\* is next.
findCollision(w) ==
    LET sc == w.scene
        wflId0 == sc.needNarrowPhase[sc.i]
        checked(sorted, wflId1, r) ==
            LET marked ==
                    [sorted EXCEPT
                       !.collisionPairCache =
                           SetKeys(@, pairHashKeys(wflId0, wflId1), TRUE),
                       !.checked =
                           [q \in DOMAIN @ \cup {{wflId0, wflId1}} |->
                               IF q # {wflId0, wflId1} THEN @[q]
                               ELSE IF q \in DOMAIN @ THEN @[q] + 1 ELSE 1],
                       !.obj0 = wflId0, !.obj1 = wflId1, !.data = r.data]
                os == [w.objs EXCEPT ![wflId0] = r.this, ![wflId1] = r.physObj]
            IN  IF r.threw THEN Thrown(World(os, w.qt, marked))
                ELSE IF r.data.colliding /\ r.data.hasContactPoint
                THEN World(os, w.qt, [marked EXCEPT !.pc = "finalize"])
                ELSE World(os, w.qt, [marked EXCEPT !.j = @ + 1])
        candidate(sorted, wflId1) ==
            IF sc.collisionPairCache[<<wflId0, wflId1>>]
            THEN World(w.objs, w.qt, [sorted EXCEPT !.j = @ + 1])
            ELSE checked(sorted, wflId1,
                         checkCollision(w.objs[wflId0], w.objs[wflId1]))
        each(possibleCollisions, sorted) ==
            IF sc.j > Len(possibleCollisions)
            THEN World(w.objs, w.qt, [sorted EXCEPT !.i = @ + 1, !.j = 1])
            ELSE candidate(sorted, possibleCollisions[sc.j])
        from(possibleCollisions) ==
            each(possibleCollisions,
                 [sc EXCEPT !.quadtreeCache[wflId0] = possibleCollisions])
    IN  from(sortByDistance(sc.quadtreeCache[wflId0], <<>>,
                            [b \in Range(sc.quadtreeCache[wflId0]) |->
                                sc.distancePairCache[<<wflId0, b>>]]))

\* The end of a turn without the break on an empty turn.
endOfPassNoBreak(sc) ==
    [sc EXCEPT !.emptyPass = @ \/ sc.collisionObjects = <<>>,
               !.needBroadPhase = sc.collisionObjects,
               !.k = @ + 1,
               !.pc = IF sc.k + 1 < sc.collisionIterations
                      THEN "pass" ELSE "overlaps"]

\* The end of a turn of the loop of _handleCollisions.
endOfPass(sc) ==
    IF sc.collisionObjects = <<>>
    THEN [sc EXCEPT !.emptyPass = TRUE, !.pc = "overlaps"]
    ELSE [sc EXCEPT !.needBroadPhase = sc.collisionObjects,
                    !.k = @ + 1,
                    !.pc = IF sc.k + 1 < sc.collisionIterations
                           THEN "pass" ELSE "overlaps"]

---------------------------------------------------------------------------
(* Game: the time step of the update loop *)

\* The time step without the limits: all banked time is spent at once.
stepDtUnclamped(excessDt, dt) == [excessDt |-> 0, dt |-> excessDt + dt]

\* Game.update clamping the step without banking what it cut off.
stepDtForgetful(excessDt, dt) ==
    [excessDt |-> excessDt, dt |-> MathMin(dt, Unit)]

\* Game.update banking the time it cuts off without ever spending it.
stepDtHoarding(excessDt, dt) ==
    IF dt > Unit
    THEN [excessDt |-> excessDt + (dt - Unit), dt |-> Unit]
    ELSE [excessDt |-> excessDt, dt |-> dt]

\* The body of "if (this._scene) { ... }" in Game.update up to the call of
\* this._scene.update(dt): the new _excessDt and the dt handed to the scene.
stepDt(excessDt, dt) ==
    IF dt > Unit
    THEN [excessDt |-> excessDt + (dt - Unit), dt |-> Unit]
    ELSE IF excessDt > 0
    THEN LET newDt == MathMin(excessDt + dt, Unit)
         IN  [excessDt |-> excessDt - (newDt - dt), dt |-> newDt]
    ELSE [excessDt |-> excessDt, dt |-> dt]

\* Raw frame deltas the ticker passes to Game.update.
RawDts == {Unit \div 4, Half, Unit, Unit + Half, 3 * Unit + Unit \div 4}

\* No pair of bodies is under test.
NoPair ==
    [pc |-> "none", broad |-> FALSE, broadReverse |-> FALSE,
     narrow |-> [result |-> FALSE, data |-> NoCollisionData],
     narrowReverse |-> [result |-> FALSE, data |-> NoCollisionData],
     data |-> NoCollisionData, before |-> <<>>]

\* rawDts and sceneDts are the sums of the frame deltas Game.update received
\* and of the steps it handed to Scene.update, both while a scene was set.
NewGame ==
    [excessDt |-> 0, scene |-> FALSE, sceneDt |-> 0, frames |-> 0,
     rawDts |-> 0, sceneDts |-> 0]

\* Game.setScene(scene)
GameSetScene ==
    /\ ~game.scene
    /\ game' = [game EXCEPT !.scene = TRUE]
    /\ UNCHANGED <<objs, qt, scene, pair>>

\* Game.update(dt); sceneDt is the argument of the call this._scene.update(dt).
GameUpdate(dt) ==
    /\ game.frames < MaxFrames
    /\ game' =
         IF game.scene
         THEN LET r == stepDt(game.excessDt, dt)
              IN  [game EXCEPT !.excessDt = r.excessDt, !.sceneDt = r.dt,
                               !.frames = @ + 1, !.rawDts = @ + dt,
                               !.sceneDts = @ + r.dt]
         ELSE [game EXCEPT !.frames = @ + 1]
    /\ UNCHANGED <<objs, qt, scene, pair>>

---------------------------------------------------------------------------
(* Quadtree on its own: bodies inserted into a tree over fixed bounds *)

QTBounds == [x |-> 0, y |-> 0, width |-> 16 * Unit, height |-> 16 * Unit]

\* Cached position and AABB size of the bodies offered to insert.
QTBodies ==
    << [x |-> 2 * Unit, y |-> 2 * Unit, w |-> 2 * Unit, h |-> 2 * Unit],
       [x |-> 7 * Unit + Half, y |-> 3 * Unit, w |-> Unit + Half, h |-> Unit + Half],
       [x |-> 8 * Unit + Half, y |-> 3 * Unit, w |-> Unit + Half, h |-> Unit + Half],
       [x |-> 3 * Unit, y |-> 8 * Unit, w |-> 2 * Unit, h |-> 2 * Unit],
       [x |-> 8 * Unit, y |-> 8 * Unit, w |-> 4 * Unit, h |-> 4 * Unit],
       [x |-> 12 * Unit, y |-> 12 * Unit, w |-> 2 * Unit, h |-> 2 * Unit],
       [x |-> Half, y |-> Half, w |-> Unit, h |-> Unit] >>

QTKind(o) ==
    CHOOSE k \in DOMAIN QTBodies :
        /\ QTBodies[k].x = o.position.x /\ QTBodies[k].y = o.position.y
        /\ QTBodies[k].w = o.cachedWidth /\ QTBodies[k].h = o.cachedHeight

NewTree(bounds) == [p \in {<<>>} |-> NewQuadtree(0, bounds)]

\* A new body of kind k is cached and inserted.  Bodies are offered in
\* non-decreasing order of kind: the node a body ends in does not depend on
\* the order of the inserts, so this only removes permutations.
QTInsert(k) ==
    LET id == Cardinality(DOMAIN objs) + 1
        g == QTBodies[k]
        o == cacheCalculations(NewPhysicsObject(id, g.x, g.y, g.w, g.h))
        os == [b \in DOMAIN objs \cup {id} |-> IF b = id THEN o ELSE objs[b]]
    IN  /\ id <= MaxBodies
        /\ \A b \in DOMAIN objs : QTKind(objs[b]) <= k
        /\ objs' = os
        /\ qt' = insert(qt, Caches(os), <<>>, id)
        /\ UNCHANGED <<game, scene, pair>>

\* quadtree.clear(), the bodies being dropped with it.
QTClear ==
    /\ DOMAIN objs # {}
    /\ qt' = clear(qt)
    /\ objs' = <<>>
    /\ UNCHANGED <<game, scene, pair>>

InitQT ==
    /\ objs = <<>>
    /\ qt = NewTree(QTBounds)
    /\ game = NewGame
    /\ scene = NewScene
    /\ pair = NoPair

NextQT == (\E k \in DOMAIN QTBodies : QTInsert(k)) \/ QTClear

SpecQT == InitQT /\ [][NextQT]_vars

---------------------------------------------------------------------------
(* The caching quadtree on its own *)

\* The kinds of bodies offered to the caching tree: one that fits a child,
\* one beside the vertical midline, one across both midlines.
QTCachedKinds == {1, 3, 5}

\* A new body of kind k is cached and inserted; its customData is {}.
QTCachedInsert(k) ==
    LET id == Cardinality(DOMAIN objs) + 1
        g == QTBodies[k]
        o == cacheCalculations(NewPhysicsObject(id, g.x, g.y, g.w, g.h))
        os == [b \in DOMAIN objs \cup {id} |-> IF b = id THEN o ELSE objs[b]]
        q == [qt EXCEPT !.quadTreeIndex =
                 [b \in DOMAIN os |-> IF b = id THEN Undefined ELSE @[b]]]
    IN  /\ id <= MaxBodies
        /\ \A b \in DOMAIN objs : QTKind(objs[b]) <= k
        /\ objs' = os
        /\ qt' = [insertCached(q, Caches(os), <<>>, id) EXCEPT
                     !.retrieved = 0, !.list = <<>>, !.threw = FALSE]
        /\ UNCHANGED <<game, scene, pair>>

\* quadtree.retrieve([], b) for a body b that was inserted.
QTCachedRetrieve(b) ==
    /\ qt' = [retrieveCached(qt, Caches(objs), <<>>, <<>>, b) EXCEPT
                 !.retrieved = b]
    /\ UNCHANGED <<objs, game, scene, pair>>

\* quadtree.clear(), the bodies being dropped with it.
QTCachedClear ==
    /\ DOMAIN objs # {}
    /\ qt' = [clearCached(qt) EXCEPT !.quadTreeIndex = <<>>, !.retrieved = 0,
                                     !.list = <<>>, !.threw = FALSE]
    /\ objs' = <<>>
    /\ UNCHANGED <<game, scene, pair>>

InitQTCached ==
    /\ objs = <<>>
    /\ qt = NewCachedTree(QTBounds)
    /\ game = NewGame
    /\ scene = NewScene
    /\ pair = NoPair

NextQTCached ==
    \/ \E k \in QTCachedKinds : QTCachedInsert(k)
    \/ \E b \in DOMAIN objs : QTCachedRetrieve(b)
    \/ QTCachedClear

SpecQTCached == InitQTCached /\ [][NextQTCached]_vars

---------------------------------------------------------------------------
(* A quadtree over a 100 x 100 region, with a cluster of small bodies *)

ClusterBounds == [x |-> 0, y |-> 0, width |-> 100 * Unit, height |-> 100 * Unit]

\* MaxAgain bounds how often a stored body is handed to insert again.
MaxAgain == 1

\* Cached position and AABB size of the bodies offered to insert: the small
\* body of the cluster, a body in the opposite quadrant, and a body across
\* both midlines of the root.
ClusterBodies ==
    << [x |-> Unit, y |-> Unit, w |-> Half, h |-> Half],
       [x |-> 75 * Unit, y |-> 75 * Unit, w |-> 2 * Unit, h |-> 2 * Unit],
       [x |-> 50 * Unit, y |-> 50 * Unit, w |-> 4 * Unit, h |-> 4 * Unit] >>

ClusterKind(o) ==
    CHOOSE k \in DOMAIN ClusterBodies :
        /\ ClusterBodies[k].x = o.position.x /\ ClusterBodies[k].y = o.position.y
        /\ ClusterBodies[k].w = o.cachedWidth /\ ClusterBodies[k].h = o.cachedHeight

\* The number of entries in the object lists of the tree.
RECURSIVE EntriesIn(_, _)
EntriesIn(t, ps) ==
    IF ps = {} THEN 0
    ELSE LET p == CHOOSE q \in ps : TRUE
         IN  Len(t[p].objects) + EntriesIn(t, ps \ {p})
Entries(t) == EntriesIn(t, DOMAIN t)

\* A new body of kind k is cached and inserted, in non-decreasing order of
\* kind as above.
ClusterInsert(k) ==
    LET id == Cardinality(DOMAIN objs) + 1
        g == ClusterBodies[k]
        o == cacheCalculations(NewPhysicsObject(id, g.x, g.y, g.w, g.h))
        os == [b \in DOMAIN objs \cup {id} |-> IF b = id THEN o ELSE objs[b]]
    IN  /\ id <= MaxBodies
        /\ \A b \in DOMAIN objs : ClusterKind(objs[b]) <= k
        /\ objs' = os
        /\ qt' = insert(qt, Caches(os), <<>>, id)
        /\ UNCHANGED <<game, scene, pair>>

\* quadtree.insert(b) for a body b that is stored already and has not moved.
\* The bodies of one kind differ in their place in the lists only, so the
\* first of each kind stands for them.
ClusterInsertAgain(b) ==
    /\ Entries(qt) < Cardinality(DOMAIN objs) + MaxAgain
    /\ \A a \in DOMAIN objs :
          ClusterKind(objs[a]) = ClusterKind(objs[b]) => b <= a
    /\ qt' = insert(qt, Caches(objs), <<>>, b)
    /\ UNCHANGED <<objs, game, scene, pair>>

InitCluster ==
    /\ objs = <<>>
    /\ qt = NewTree(ClusterBounds)
    /\ game = NewGame
    /\ scene = NewScene
    /\ pair = NoPair

NextCluster ==
    \/ \E k \in DOMAIN ClusterBodies : ClusterInsert(k)
    \/ \E b \in DOMAIN objs : ClusterInsertAgain(b)
    \/ QTClear

SpecCluster == InitCluster /\ [][NextCluster]_vars

---------------------------------------------------------------------------
(* The game loop on its own *)

InitGame ==
    /\ objs = <<>>
    /\ qt = NewTree(QTBounds)
    /\ game = NewGame
    /\ scene = NewScene
    /\ pair = NoPair

NextGame == GameSetScene \/ (\E dt \in RawDts : GameUpdate(dt))

SpecGame == InitGame /\ [][NextGame]_vars

---------------------------------------------------------------------------
(* A scene of a few bodies: added, removed, followed, and ticked *)

MaxTicks == 2            \* calls of Scene.update that are followed
MaxCalls == 4            \* calls of addGameObject, removeGameObject, follow

\* A square body of side 2; persists is the flag it is added with.
Body(id, x, y, vx, vy, fixed, persists) ==
    [NewPhysicsObject(id, x, y, 2 * Unit, 2 * Unit) EXCEPT
        !.velocity = Vec2(vx, vy), !.fixed = fixed, !.persists = persists]


\* Three bodies at rest, the second persisting and far from the others.
GridWorld ==
    << Body(1, 0, 0, 0, 0, FALSE, FALSE),
       Body(2, 12 * Unit, 4 * Unit, 0, 0, FALSE, TRUE),
       Body(3, 4 * Unit, 0, 0, 0, FALSE, FALSE) >>

\* A body moving right toward a fixed one, which has a velocity of its own
\* that update(dt) never applies.
WallWorld ==
    << Body(1, 0, 0, (4 * Unit) \div 10, 0, FALSE, FALSE),
       Body(2, (22 * Unit) \div 10, 0, Unit \div 10, 0, TRUE, FALSE) >>

\* A body at rest that overlaps the fixed bodies on both of its sides.
SqueezeWorld ==
    << Body(1, Unit + 3 * (Unit \div 4), 0, 0, 0, FALSE, FALSE),
       Body(2, 0, 0, 0, 0, TRUE, FALSE),
       Body(3, 3 * Unit + Half, 0, 0, 0, TRUE, FALSE) >>

\* Two bodies moving toward each other.
HeadOnWorld ==
    << Body(1, 0, 0, (4 * Unit) \div 10, 0, FALSE, FALSE),
       Body(2, (24 * Unit) \div 10, 0, 0 - (4 * Unit) \div 10, 0, FALSE, FALSE) >>

SceneWorlds == {GridWorld, WallWorld, SqueezeWorld, HeadOnWorld}

\* The dt of a tick.
SceneDts == {Unit}

Becomes(w) ==
    /\ objs' = w.objs
    /\ qt' = w.qt
    /\ scene' = w.scene
    /\ UNCHANGED <<game, pair>>

Now == World(objs, qt, scene)

\* scene.addGameObject(b, 0, persists), between two ticks.
AddGameObject(b) ==
    /\ scene.pc = "idle"
    /\ b \notin Range(scene.layer)
    /\ scene.calls < MaxCalls
    /\ LET called(w) ==
               Becomes(World(w.objs, w.qt, [w.scene EXCEPT !.calls = @ + 1]))
       IN  called(addGameObject(Now, b, objs[b].persists))

\* scene.removeGameObject(b), between two ticks.
RemoveGameObject(b) ==
    /\ scene.pc = "idle"
    /\ b \in Range(scene.layer)
    /\ scene.calls < MaxCalls
    /\ LET called(w) ==
               Becomes(World(w.objs, w.qt, [w.scene EXCEPT !.calls = @ + 1]))
       IN  called(removeGameObject(Now, b))

\* scene.camera.follow(b), between two ticks.
Follow(b) ==
    /\ scene.pc = "idle"
    /\ b \in Range(scene.layer)
    /\ scene.camera.followObj # b
    /\ scene.calls < MaxCalls
    /\ scene' = [scene EXCEPT !.camera = follow(@, b), !.calls = @ + 1]
    /\ UNCHANGED <<objs, qt, game, pair>>

\* Scene.update(dt) starts: buckets, camera, the bodies to update.
TickStart(dt) ==
    /\ scene.pc = "idle"
    /\ scene.ticks < MaxTicks
    /\ Becomes(selectGameObjects(Now, dt))

\* The solid bodies go into the quadtree.
InsertAll ==
    /\ scene.pc = "insert"
    /\ LET inserted(w) ==
               Becomes(World(w.objs, w.qt, [w.scene EXCEPT !.pc = "update"]))
       IN  inserted(insertSolid(Now, scene.gameObjectsToUpdate))

\* Every body to update is updated.
UpdateAll ==
    /\ scene.pc = "update"
    /\ Becomes(World(updateEach(objs, scene.gameObjectsToUpdate, scene.dt), qt,
                     [scene EXCEPT !.updated = Range(scene.gameObjectsToUpdate),
                                   !.pc = "cache"]))

\* Every body to update caches its calculations; _handleCollisions begins
\* with the non-fixed solid ones.
CacheAll ==
    /\ scene.pc = "cache"
    /\ Becomes(World(cacheEachBody(objs, scene.gameObjectsToUpdate), qt,
           [scene EXCEPT
              !.needBroadPhase =
                  SelectSeq(scene.gameObjectsToUpdate,
                            LAMBDA b : objs[b].solid /\ ~objs[b].fixed),
              !.k = 0,
              !.pc = IF scene.collisionIterations > 0
                     THEN "pass" ELSE "overlaps"]))

\* A turn of the loop of _handleCollisions begins: _resetCollisionData and
\* _cacheData, then _findAllCollisions starts.
PassBegin ==
    /\ scene.pc = "pass"
    /\ LET begun(w) ==
               Becomes(World(w.objs, w.qt,
                   [w.scene EXCEPT !.passes = @ + 1, !.checked = <<>>,
                                   !.i = 1, !.j = 1, !.pc = "find"]))
       IN  begun(cacheData(resetCollisionData(Now, scene.needBroadPhase),
                           scene.needBroadPhase))

\* _findAllCollisions looks at the next candidate of the next body.
FindStep ==
    /\ scene.pc = "find"
    /\ scene.i <= Len(scene.needNarrowPhase)
    /\ Becomes(findCollision(Now))

\* _finalizeCollision for the pair that was just found colliding.
FinalizeStep ==
    /\ scene.pc = "finalize"
    /\ LET finalized(w) ==
               Becomes(World(w.objs, w.qt,
                             [w.scene EXCEPT !.j = @ + 1, !.pc = "find"]))
       IN  finalized(finalizeCollision(Now, scene.obj0, scene.obj1, scene.data))

\* _findAllCollisions is over: the loop of _handleCollisions breaks or turns.
PassEnd ==
    /\ scene.pc = "find"
    /\ scene.i > Len(scene.needNarrowPhase)
    /\ Becomes(World(objs, qt, endOfPass(scene)))

\* _handleOverlaps, and update(dt) returns.
HandleOverlaps ==
    /\ scene.pc = "overlaps"
    /\ Becomes(World(objs, qt,
           [scene EXCEPT !.overlapped = handleOverlaps(Now, scene.gameObjectsToUpdate),
                         !.pc = "idle", !.ticks = @ + 1]))

InitScene ==
    /\ objs \in SceneWorlds
    /\ qt = NewTree([x |-> 0, y |-> 0, width |-> CanvasSize, height |-> CanvasSize])
    /\ game = NewGame
    /\ scene = NewScene
    /\ pair = NoPair

NextScene ==
    \/ \E b \in DOMAIN objs : AddGameObject(b)
    \/ \E b \in DOMAIN objs : RemoveGameObject(b)
    \/ \E b \in DOMAIN objs : Follow(b)
    \/ \E dt \in SceneDts : TickStart(dt)
    \/ InsertAll
    \/ UpdateAll
    \/ CacheAll
    \/ PassBegin
    \/ FindStep
    \/ FinalizeStep
    \/ PassEnd
    \/ HandleOverlaps

SpecScene == InitScene /\ [][NextScene]_vars

---------------------------------------------------------------------------
(* A scene whose bodies have all been added, ticked *)

\* A body that takes overlap events, and one whose canCollide turns down
\* the bodies of others.
WithOverlapEvents(o) == [o EXCEPT !.allowOverlapEvents = TRUE]
Ignoring(o, others) == [o EXCEPT !.ignores = others]

\* Two bodies that can move, jammed between two fixed ones; the first
\* takes overlap events.
JamWorld ==
    << WithOverlapEvents(Body(1, Unit + 3 * (Unit \div 4), 0, 0, 0, FALSE, FALSE)),
       Body(2, 3 * Unit + Half, 0, 0, 0, FALSE, FALSE),
       Body(3, 0, 0, 0, 0, TRUE, FALSE),
       Body(4, 5 * Unit + Unit \div 4, 0, 0, 0, TRUE, FALSE) >>

\* A body that takes overlap events, over a body that its canCollide turns
\* down and over a fixed one.
FilterWorld ==
    << WithOverlapEvents(Ignoring(Body(1, 0, 0, 0, 0, FALSE, FALSE), {2})),
       Body(2, 0, Unit + Half, 0, 0, FALSE, FALSE),
       Body(3, Unit + Half, 0 - Unit, 0, 0, TRUE, FALSE) >>

StageWorlds == {JamWorld, FilterWorld, SqueezeWorld, HeadOnWorld}

\* scene.addGameObject for each body of the list.
RECURSIVE addEach(_, _)
addEach(w, list) ==
    IF list = <<>> THEN w
    ELSE addEach(addGameObject(w, Head(list), w.objs[Head(list)].persists),
                 Tail(list))

Staged(os) ==
    addEach(World(os, NewTree([x |-> 0, y |-> 0, width |-> CanvasSize,
                               height |-> CanvasSize]), NewScene),
            [b \in DOMAIN os |-> b])

InitStage ==
    /\ \E os \in StageWorlds :
          /\ objs = Staged(os).objs
          /\ scene = Staged(os).scene
    /\ qt = NewTree([x |-> 0, y |-> 0, width |-> CanvasSize, height |-> CanvasSize])
    /\ game = NewGame
    /\ pair = NoPair

NextStage ==
    \/ \E dt \in SceneDts : TickStart(dt)
    \/ InsertAll
    \/ UpdateAll
    \/ CacheAll
    \/ PassBegin
    \/ FindStep
    \/ FinalizeStep
    \/ PassEnd
    \/ HandleOverlaps

SpecStage == InitStage /\ [][NextStage]_vars

---------------------------------------------------------------------------
(* The bucket grid of a scene whose bodies rest or meet *)

\* window.innerWidth and window.innerHeight at a resize; the zoom is 1.
WindowSizes == {CanvasSize, CanvasSize + 3 * Unit}

\* The bucket radii a lookup is asked for.
MaxRadius == 2

\* MaxGridCalls bounds the resizes and partitions between the ticks.
MaxGridCalls == 2

\* A body near the camera inside the grid, and two far bodies whose AABBs
\* reach the lower and the upper bound of the grid.
FarWorld ==
    << Body(1, 0, Unit, 0, 0, FALSE, FALSE),
       Body(2, 12 * Unit, 2 * Unit, 0, 0, FALSE, FALSE),
       Body(3, 12 * Unit, 0, 0, 0, FALSE, FALSE) >>

\* A body near the camera whose AABB reaches the upper bound of the grid
\* exactly, and a far body.
TouchWorld ==
    << Body(1, 0, 0, 0, 0, FALSE, FALSE),
       Body(2, 12 * Unit, 2 * Unit, 0, 0, FALSE, FALSE) >>

\* Two bodies in a row, a grid of no height; one body, a grid of no extent.
RowWorld ==
    << Body(1, Unit, 5 * Unit, 0, 0, FALSE, FALSE),
       Body(2, 14 * Unit, 5 * Unit, 0, 0, FALSE, FALSE) >>
DotWorld == << Body(1, 3 * Unit, 0 - 2 * Unit, 0, 0, FALSE, FALSE) >>

GridWorlds == {GridWorld, FarWorld, TouchWorld, RowWorld, DotWorld, HeadOnWorld}

\* _onResize
onResize(sc, innerWidth, innerHeight) ==
    [sc EXCEPT !.bucketConfig.forceCalc = TRUE,
               !.bucketConfig.size =
                   MathCeil(Mul(MathMax(innerWidth, innerHeight), Half))]

\* The window is resized between two ticks.
Resize(innerWidth, innerHeight) ==
    /\ scene.pc = "idle"
    /\ scene.calls < MaxGridCalls
    /\ scene' = [onResize(scene, innerWidth, innerHeight) EXCEPT !.calls = @ + 1]
    /\ UNCHANGED <<objs, qt, game, pair>>

\* The partition of all bodies into the cells as they are.
partitionAllKeeping(w) == partitionGameObjectsIntoBuckets(w, w.scene.layer)

\* _createBuckets(all) and _partitionGameObjectsIntoBuckets(all) as the
\* forced branch of _updateBuckets calls them.
partitionAll(w) ==
    partitionGameObjectsIntoBuckets(
        World(w.objs, w.qt, createBuckets(w.scene, w.objs, w.scene.layer)),
        w.scene.layer)

\* The grid: its bounds, its dimensions, the contents of its cells, and the
\* cell each body was told.
GridOf(w) ==
    [minX |-> w.scene.bucketConfig.minX, maxX |-> w.scene.bucketConfig.maxX,
     minY |-> w.scene.bucketConfig.minY, maxY |-> w.scene.bucketConfig.maxY,
     buckets |-> w.scene.buckets,
     bucketPosition |-> [b \in DOMAIN w.objs |-> w.objs[b].bucketPosition]]

\* The full partition is run twice in succession between two ticks; the
\* grid after the first run is kept for comparison.
Repartition ==
    /\ scene.pc = "idle"
    /\ scene.calls < MaxGridCalls
    /\ LET twice(w1, w2) ==
               /\ objs' = w2.objs
               /\ scene' = [w2.scene EXCEPT !.calls = @ + 1]
               /\ pair' = [pc |-> "partitioned", first |-> GridOf(w1),
                           calls |-> scene.calls + 1, ticks |-> scene.ticks]
       IN  twice(partitionAll(Now), partitionAll(partitionAll(Now)))
    /\ UNCHANGED <<qt, game>>

InitGrid ==
    /\ \E os \in GridWorlds :
          /\ objs = Staged(os).objs
          /\ scene = Staged(os).scene
    /\ qt = NewTree([x |-> 0, y |-> 0, width |-> CanvasSize, height |-> CanvasSize])
    /\ game = NewGame
    /\ pair = NoPair

NextGrid ==
    \/ \E dt \in SceneDts : TickStart(dt)
    \/ InsertAll
    \/ UpdateAll
    \/ CacheAll
    \/ PassBegin
    \/ FindStep
    \/ FinalizeStep
    \/ PassEnd
    \/ HandleOverlaps
    \/ \E iw, ih \in WindowSizes : Resize(iw, ih)
    \/ Repartition

SpecGrid == InitGrid /\ [][NextGrid]_vars

---------------------------------------------------------------------------
(* Two bodies, handed to the collision functions one after the other *)

\* The places and the side of the second body about the first, the masses
\* and the velocities of the two bodies, and the restitutions they are given.
PairPlaces ==
    ({0 - (3 * Unit) \div 2, Unit, (3 * Unit) \div 2, 2 * Unit,
      (5 * Unit) \div 2}
        \X {0 - (3 * Unit) \div 2, 0, Unit, (5 * Unit) \div 2}
        \X {2 * Unit})
    \cup ({Unit \div 4, Unit, (3 * Unit) \div 2, 2 * Unit} \X {0} \X {Unit})
PairMasses == {<<Unit, Unit>>, <<Unit, 3 * Unit>>, <<3 * Unit, Unit>>}
PairVelocities ==
    {<<ZeroVec, ZeroVec>>,
     <<Vec2((3 * Unit) \div 10, 0), ZeroVec>>,
     <<Vec2((3 * Unit) \div 10, 0), Vec2(0 - (3 * Unit) \div 10, 0)>>,
     <<Vec2((3 * Unit) \div 10, (3 * Unit) \div 20), ZeroVec>>}
PairRestitutions == {Half, Unit}

\* A square body after update(dt) with dt = 1: it came from where its
\* velocity brought it.
PairBody(id, x, y, side, v, mass, restitution, fixed) ==
    [NewPhysicsObject(id, x, y, side, side) EXCEPT
        !.previousPosition = Vec2(x - v.x, y - v.y),
        !.velocity = v, !.mass = mass, !.restitution = restitution,
        !.fixed = fixed]

PairWorlds ==
    {<< PairBody(1, 4 * Unit, 4 * Unit, 2 * Unit, v0, m0, r, FALSE),
        PairBody(2, 4 * Unit + dx, 4 * Unit + dy, side, v1, m1, r, fixed) >> :
        <<dx, dy, side>> \in PairPlaces,
        <<v0, v1>> \in PairVelocities,
        <<m0, m1>> \in PairMasses,
        <<r, fixed>> \in
            {t \in PairRestitutions \X BOOLEAN : t[1] = Unit \/ ~t[2]}}

PairAt(pc) == pair.pc = pc

\* cacheCalculations of the two bodies, then _resetCollisionData.
PairCache ==
    /\ PairAt("new")
    /\ objs' = resetBodies([b \in DOMAIN objs |-> cacheCalculations(objs[b])],
                           <<1, 2>>)
    /\ pair' = [pair EXCEPT !.pc = "cached"]
    /\ UNCHANGED <<qt, game, scene>>

\* checkBroadPhaseCollision, asked of each body about the other.
PairBroadPhase ==
    /\ PairAt("cached")
    /\ pair' = [pair EXCEPT
                   !.pc = "broad",
                   !.broad = checkBroadPhaseCollision(
                                 objs[1].calculationCache,
                                 objs[2].calculationCache),
                   !.broadReverse = checkBroadPhaseCollision(
                                        objs[2].calculationCache,
                                        objs[1].calculationCache)]
    /\ UNCHANGED <<objs, qt, game, scene>>

\* checkNarrowPhaseCollision, asked of each body about the other.
PairNarrowPhase ==
    /\ PairAt("broad")
    /\ pair' = [pair EXCEPT
                   !.pc = "narrow",
                   !.narrow = checkNarrowPhaseCollision(
                                  objs[1], objs[2], NoCollisionData),
                   !.narrowReverse = checkNarrowPhaseCollision(
                                         objs[2], objs[1], NoCollisionData)]
    /\ UNCHANGED <<objs, qt, game, scene>>

\* obj0.checkCollision(obj1)
PairCheckCollision ==
    /\ PairAt("narrow")
    /\ objs' = << checkCollision(objs[1], objs[2]).this,
                  checkCollision(objs[1], objs[2]).physObj >>
    /\ pair' = [pair EXCEPT
                   !.pc = IF checkCollision(objs[1], objs[2]).threw
                          THEN "threw" ELSE "checked",
                   !.data = checkCollision(objs[1], objs[2]).data]
    /\ UNCHANGED <<qt, game, scene>>

\* _finalizeCollision(obj0, obj1, collisionData), as _findCollision calls
\* it for a pair that collides at a contact point.
PairFinalize ==
    /\ PairAt("checked")
    /\ pair.data.colliding /\ pair.data.hasContactPoint
    /\ objs' = finalizeCollision(World(objs, qt, scene), 1, 2, pair.data).objs
    /\ scene' = finalizeCollision(World(objs, qt, scene), 1, 2, pair.data).scene
    /\ pair' = [pair EXCEPT !.pc = "finalized", !.before = objs]
    /\ UNCHANGED <<qt, game>>

InitPair ==
    /\ objs \in PairWorlds
    /\ qt = NewTree(QTBounds)
    /\ game = NewGame
    /\ scene = NewScene
    /\ pair = [NoPair EXCEPT !.pc = "new"]

NextPair ==
    \/ PairCache
    \/ PairBroadPhase
    \/ PairNarrowPhase
    \/ PairCheckCollision
    \/ PairFinalize

SpecPair == InitPair /\ [][NextPair]_vars

---------------------------------------------------------------------------
(* A body that is updated, cached and checked against a fixed one *)

\* The dt of the update, the side and the velocity of the moving body, and
\* where the fixed body (2 x 2) stands to its right.
SampleDts == {Half, Unit}
SampleSides == {Unit \div 10, 2 * Unit}
SampleVelocities ==
    {Vec2(Unit \div 5, 0), Vec2((3 * Unit) \div 10, 0),
     Vec2((2 * Unit) \div 5, 0)}
SampleGaps ==
    {Unit + Unit \div 10, Unit + (3 * Unit) \div 20, Unit + Unit \div 5,
     Unit + Unit \div 4, Unit + (3 * Unit) \div 10, Unit + (7 * Unit) \div 20,
     Unit + Half, 2 * Unit, 2 * Unit + Unit \div 5}

\* The moving body before its update, and the fixed one.
SampleWorlds ==
    {<< [NewPhysicsObject(1, 0, 0, side, side) EXCEPT !.velocity = v],
        [NewPhysicsObject(2, gap, 0, 2 * Unit, 2 * Unit) EXCEPT !.fixed = TRUE] >> :
        side \in SampleSides, v \in SampleVelocities, gap \in SampleGaps}

\* update(dt) and cacheCalculations of the two bodies, then
\* _resetCollisionData, as a tick runs them before the collisions.
SampleUpdate ==
    /\ PairAt("rest")
    /\ objs' = resetBodies([b \in DOMAIN objs |->
                               cacheCalculations(update(objs[b], pair.dt))],
                           <<1, 2>>)
    /\ pair' = [pair EXCEPT !.pc = "cached"]
    /\ UNCHANGED <<qt, game, scene>>

\* obj0.checkCollision(obj1); the bodies as they were are kept.
SampleCheckCollision ==
    /\ PairAt("cached")
    /\ objs' = << checkCollision(objs[1], objs[2]).this,
                  checkCollision(objs[1], objs[2]).physObj >>
    /\ pair' = [pair EXCEPT
                   !.pc = IF checkCollision(objs[1], objs[2]).threw
                          THEN "threw" ELSE "checked",
                   !.data = checkCollision(objs[1], objs[2]).data,
                   !.before = objs]
    /\ UNCHANGED <<qt, game, scene>>

InitSample ==
    /\ objs \in SampleWorlds
    /\ qt = NewTree(QTBounds)
    /\ game = NewGame
    /\ scene = NewScene
    /\ \E dt \in SampleDts :
          pair = [pc |-> "rest", dt |-> dt, data |-> NoCollisionData,
                  before |-> <<>>]

NextSample == SampleUpdate \/ SampleCheckCollision

SpecSample == InitSample /\ [][NextSample]_vars

---------------------------------------------------------------------------
(* The narrow phase on its own, on bodies with edges of zero length *)

\* Width and height of a body's frame (a frame may have no extent along an
\* axis), and where the second body stands relative to the first, which is
\* at the origin.
NarrowSizes ==
    {Vec2(0, 0), Vec2(0, 2 * Unit), Vec2(2 * Unit, 0), Vec2(2 * Unit, 2 * Unit),
     Vec2(Unit \div 10, Unit \div 10)}
NarrowOffsets ==
    {Vec2(0, 0), Vec2(Half, 0), Vec2(Unit, Unit), Vec2(0, 3 * Unit),
     Vec2(0 - Unit, 0)}

NarrowWorlds ==
    {<< cacheCalculations(NewPhysicsObject(1, 0, 0, s1.x, s1.y)),
        cacheCalculations(NewPhysicsObject(2, at.x, at.y, s2.x, s2.y)) >> :
        s1 \in NarrowSizes, s2 \in NarrowSizes, at \in NarrowOffsets}

\* obj0.checkNarrowPhaseCollision(obj1, collisionData), on fresh collision
\* data; axes is the length of the combined axis list.
NarrowCheck ==
    /\ PairAt("rest")
    /\ pair' = [pc |-> "checked", axes |-> 8,
                result |-> checkNarrowPhaseCollision(
                               objs[1], objs[2], NoCollisionData).result,
                data |-> checkNarrowPhaseCollision(
                             objs[1], objs[2], NoCollisionData).data]
    /\ UNCHANGED <<objs, qt, game, scene>>

\* The same call on two bodies that have no state yet: their vertices are
\* the empty list of the constructor, so the combined axis list is empty and
\* the loop over the axes does not run.
NarrowCheckNoVertices ==
    /\ PairAt("rest")
    /\ pair' = [pc |-> "checked", axes |-> 0,
                result |-> satLoop(<<>>, <<>>, <<>>, 1, PosInf, ZeroVec,
                                   Vec2(objs[2].calculationCache.x
                                            -- objs[1].calculationCache.x,
                                        objs[2].calculationCache.y
                                            -- objs[1].calculationCache.y),
                                   NoCollisionData).result,
                data |-> satLoop(<<>>, <<>>, <<>>, 1, PosInf, ZeroVec,
                                 Vec2(objs[2].calculationCache.x
                                          -- objs[1].calculationCache.x,
                                      objs[2].calculationCache.y
                                          -- objs[1].calculationCache.y),
                                 NoCollisionData).data]
    /\ UNCHANGED <<objs, qt, game, scene>>

InitNarrow ==
    /\ objs \in NarrowWorlds
    /\ qt = NewTree(QTBounds)
    /\ game = NewGame
    /\ scene = NewScene
    /\ pair = [pc |-> "rest", axes |-> 0, result |-> FALSE,
               data |-> NoCollisionData]

NextNarrow == NarrowCheck \/ NarrowCheckNoVertices

SpecNarrow == InitNarrow /\ [][NextNarrow]_vars

---------------------------------------------------------------------------
(* Game and its scenes: change, setScene and the update loop *)

MaxChanges == 2          \* calls of Scene.change that are followed

\* The scenes of the game; NoScene stands for undefined.
Scenes == 1..3
NoScene == 0
SwitchDts == {Half, 2 * Unit}

\* A game with no scene set, and for each scene its nextScene and how often
\* its update, its draw and its destroy were called.
NewSwitchGame ==
    [excessDt |-> 0, scene |-> NoScene, frames |-> 0, changes |-> 0,
     nextScene |-> [s \in Scenes |-> NoScene],
     updates |-> [s \in Scenes |-> 0],
     draws |-> [s \in Scenes |-> 0],
     destroys |-> [s \in Scenes |-> 0]]

\* Game.setScene(scene): the scene in place, if any, has its nextScene
\* cleared and is destroyed; then the scene is installed.
setScene(g, s) ==
    IF g.scene # NoScene
    THEN [g EXCEPT !.nextScene[g.scene] = NoScene,
                   !.destroys[g.scene] = @ + 1,
                   !.scene = s]
    ELSE [g EXCEPT !.scene = s]

\* The part of Game.update after the time step: the switch to the next
\* scene if the scene has one, then update and draw of the scene in place.
updateScene(g) ==
    [g EXCEPT !.updates[g.scene] = @ + 1, !.draws[g.scene] = @ + 1]
switchAndUpdate(g) ==
    updateScene(IF g.nextScene[g.scene] # NoScene
                THEN setScene(g, g.nextScene[g.scene])
                ELSE g)

\* scene.change(nextScene), on any scene of the game, installed or not.
SceneChange(s, n) ==
    /\ game.changes < MaxChanges
    /\ game' = [game EXCEPT !.nextScene[s] = n, !.changes = @ + 1]
    /\ UNCHANGED <<objs, qt, scene, pair>>

\* game.setScene(s), called from outside the loop for the first scene.
SwitchSetScene(s) ==
    /\ game.scene = NoScene
    /\ game' = setScene(game, s)
    /\ UNCHANGED <<objs, qt, scene, pair>>

\* Game.update(dt)
SwitchUpdate(dt) ==
    /\ game.frames < MaxFrames
    /\ game' =
         IF game.scene # NoScene
         THEN switchAndUpdate(
                  [game EXCEPT !.excessDt = stepDt(game.excessDt, dt).excessDt,
                               !.frames = @ + 1])
         ELSE [game EXCEPT !.frames = @ + 1]
    /\ UNCHANGED <<objs, qt, scene, pair>>

InitSwitch ==
    /\ objs = <<>>
    /\ qt = NewTree(QTBounds)
    /\ game = NewSwitchGame
    /\ scene = NewScene
    /\ pair = NoPair

NextSwitch ==
    \/ \E s \in Scenes : SwitchSetScene(s)
    \/ \E s \in Scenes, n \in Scenes : SceneChange(s, n)
    \/ \E dt \in SwitchDts : SwitchUpdate(dt)

SpecSwitch == InitSwitch /\ [][NextSwitch]_vars

---------------------------------------------------------------------------
(* The game loop over time: a few long frames, and short frames for ever *)

MaxLong == 3             \* frames of a delta of 1 or more that are followed

\* Raw frame deltas of 1 or more, and raw frame deltas below 1.  The short
\* deltas are finitely many, so each of them falls short of 1 by a quarter
\* or more; the numbers are exact, with no rounding of a sum or a difference.
LongDts == {Unit, Unit + Half, 3 * Unit + Unit \div 4}
ShortDts == {Unit \div 4, Half, (3 * Unit) \div 4}

\* A game whose scene is set: rawDt is the delta of the last frame, sceneDt
\* the step handed to Scene.update in it, long the number of long frames and
\* banked the time they were cut by.
NewDrainGame ==
    [excessDt |-> 0, scene |-> TRUE, rawDt |-> 0, sceneDt |-> 0,
     long |-> 0, banked |-> 0]

\* Game.update(dt) with a scene set.
DrainUpdate(dt) ==
    /\ game.scene
    /\ dt >= Unit => game.long < MaxLong
    /\ game' = [game EXCEPT
                   !.excessDt = stepDt(game.excessDt, dt).excessDt,
                   !.sceneDt = stepDt(game.excessDt, dt).dt,
                   !.rawDt = dt,
                   !.long = IF dt >= Unit THEN @ + 1 ELSE @,
                   !.banked = IF dt > Unit THEN @ + (dt - Unit) ELSE @]
    /\ UNCHANGED <<objs, qt, scene, pair>>

LongFrame == \E dt \in LongDts : DrainUpdate(dt)
ShortFrame == \E dt \in ShortDts : DrainUpdate(dt)

InitDrain ==
    /\ objs = <<>>
    /\ qt = NewTree(QTBounds)
    /\ game = NewDrainGame
    /\ scene = NewScene
    /\ pair = NoPair

NextDrain == LongFrame \/ ShortFrame

\* The ticker calls Game.update again and again; from some frame on, every
\* delta is below 1.
SpecDrain == InitDrain /\ [][NextDrain]_vars /\ WF_vars(ShortFrame)

---------------------------------------------------------------------------
(* A scene with a body that is not solid among bodies that collide *)

\* Where the body that is not solid stands, and how it moves.
GhostPlaces == {Vec2(Unit + Half, Half), Vec2(Unit, 0), Vec2(3 * Unit, Unit)}
GhostVelocities == {ZeroVec, Vec2((3 * Unit) \div 10, 0)}

\* A body that is not solid and takes overlap events, over two solid bodies
\* that overlap each other; the second of them may be fixed.
GhostWorlds ==
    {<< [WithOverlapEvents(Body(1, at.x, at.y, v.x, v.y, FALSE, FALSE))
            EXCEPT !.solid = FALSE],
        Body(2, Unit, 0, (3 * Unit) \div 10, 0, FALSE, FALSE),
        Body(3, 2 * Unit + Half, 0, 0, 0, fixed, FALSE) >> :
        at \in GhostPlaces, v \in GhostVelocities, fixed \in BOOLEAN}

InitGhost ==
    /\ \E os \in GhostWorlds :
          /\ objs = Staged(os).objs
          /\ scene = Staged(os).scene
    /\ qt = NewTree([x |-> 0, y |-> 0, width |-> CanvasSize, height |-> CanvasSize])
    /\ game = NewGame
    /\ pair = NoPair

SpecGhost == InitGhost /\ [][NextStage]_vars

---------------------------------------------------------------------------
(* Keyboard: key events between the updates at the end of the frames *)

KeyCount == 3            \* keyStates.length, 256 in the constructor

\* The key codes of the events: those of keyStates and one beyond them.
KeyCodes == 0..KeyCount
Keys == 0..(KeyCount - 1)

\* new Keyboard(); listening tells that start() has bound the two handlers
\* to the window, last is the method that ran last.
NewKeyboard ==
    [keyStates |-> [k \in Keys |-> FALSE],
     previousKeyStates |-> [k \in Keys |-> FALSE],
     isOn |-> TRUE, needsToBeUpdated |-> FALSE, anyKeyPressed |-> FALSE,
     listening |-> FALSE, last |-> "new"]

justPressed(kb, keyCode) ==
    /\ kb.keyStates[keyCode]
    /\ kb.previousKeyStates[keyCode] # kb.keyStates[keyCode]

justReleased(kb, keyCode) ==
    /\ ~kb.keyStates[keyCode]
    /\ kb.previousKeyStates[keyCode] # kb.keyStates[keyCode]

KeyboardBecomes(kb) ==
    /\ game' = kb
    /\ UNCHANGED <<objs, qt, scene, pair>>

\* clear()
KeyboardClear ==
    KeyboardBecomes([game EXCEPT
        !.keyStates = [k \in Keys |-> FALSE],
        !.previousKeyStates = [k \in Keys |-> FALSE],
        !.needsToBeUpdated = FALSE, !.anyKeyPressed = FALSE,
        !.last = "clear"])

\* update(), called at the end of every frame
KeyboardUpdate ==
    KeyboardBecomes(
        IF game.needsToBeUpdated
        THEN [game EXCEPT
                !.previousKeyStates = game.keyStates,
                !.needsToBeUpdated = FALSE,
                !.anyKeyPressed = \E k \in Keys : game.keyStates[k],
                !.last = "update"]
        ELSE [game EXCEPT !.last = "update"])

\* stop(): isOn is cleared, clear() runs, the handlers are unbound.
KeyboardStop ==
    KeyboardBecomes([game EXCEPT
        !.isOn = FALSE,
        !.keyStates = [k \in Keys |-> FALSE],
        !.previousKeyStates = [k \in Keys |-> FALSE],
        !.needsToBeUpdated = FALSE, !.anyKeyPressed = FALSE,
        !.listening = FALSE, !.last = "stop"])

\* start()
KeyboardStart ==
    KeyboardBecomes([game EXCEPT !.isOn = TRUE, !.listening = TRUE,
                                 !.last = "start"])

\* A key is lifted and its state is cleared without a mark for update().
OnKeyUpUnmarked(keyCode) ==
    /\ game.listening
    /\ KeyboardBecomes(
           IF game.isOn /\ keyCode < KeyCount /\ game.keyStates[keyCode]
           THEN [game EXCEPT !.keyStates[keyCode] = FALSE, !.last = "keyup"]
           ELSE [game EXCEPT !.last = "keyup"])

\* _onKeyDown(e) for a keydown event of the window
OnKeyDown(keyCode) ==
    /\ game.listening
    /\ KeyboardBecomes(
           IF game.isOn /\ keyCode < KeyCount /\ ~game.keyStates[keyCode]
           THEN [game EXCEPT !.keyStates[keyCode] = TRUE,
                             !.needsToBeUpdated = TRUE,
                             !.anyKeyPressed = TRUE,
                             !.last = "keydown"]
           ELSE [game EXCEPT !.last = "keydown"])

\* _onKeyUp(e) for a keyup event of the window
OnKeyUp(keyCode) ==
    /\ game.listening
    /\ KeyboardBecomes(
           IF game.isOn /\ keyCode < KeyCount /\ game.keyStates[keyCode]
           THEN [game EXCEPT !.keyStates[keyCode] = FALSE,
                             !.needsToBeUpdated = TRUE,
                             !.last = "keyup"]
           ELSE [game EXCEPT !.last = "keyup"])

InitKeyboard ==
    /\ objs = <<>>
    /\ qt = NewTree(QTBounds)
    /\ game = NewKeyboard
    /\ scene = NewScene
    /\ pair = NoPair

NextKeyboard ==
    \/ \E keyCode \in KeyCodes : OnKeyDown(keyCode)
    \/ \E keyCode \in KeyCodes : OnKeyUp(keyCode)
    \/ KeyboardUpdate
    \/ KeyboardClear
    \/ KeyboardStop
    \/ KeyboardStart

SpecKeyboard == InitKeyboard /\ [][NextKeyboard]_vars

---------------------------------------------------------------------------
(* LivingObject: health and the frames after a hit *)

DEFAULT_MAX_HEALTH == 1
DEFAULT_TOTAL_INVINCIBILITY_FRAMES == 100

\* The values a subclass gives maxHealth and totalInvincibilityFrames after
\* the constructor has run, the defaults among them.
MaxHealths == {DEFAULT_MAX_HEALTH, 3}
TotalFrames == {1, 2, 3, DEFAULT_TOTAL_INVINCIBILITY_FRAMES}
Damages == {0, 1, 2}
HealAmounts == {1}

\* new LivingObject() with its two settings. hits counts the calls of
\* takeDamage that were applied (up to two), since counts the updates after
\* the last of them (-1 before the first; it stops one past
\* totalInvincibilityFrames), last is the method that ran last.
NewLivingObject(maxHealth, totalFrames) ==
    [invincibilityFrameCounter |-> 0,
     totalInvincibilityFrames |-> totalFrames,
     health |-> maxHealth, maxHealth |-> maxHealth,
     hits |-> 0, since |-> -1, last |-> "new"]

justGotHit(lo) == lo.invincibilityFrameCounter > 0

\* takeDamage applied whether or not the object has just been hit
takeDamageAlways(lo, damage) ==
    [lo EXCEPT !.health = IF lo.health - damage < 0 THEN 0
                          ELSE lo.health - damage,
               !.invincibilityFrameCounter = 1,
               !.hits = IF lo.hits < 2 THEN lo.hits + 1 ELSE 2,
               !.since = 0, !.last = "takeDamage"]

takeDamage(lo, damage) ==
    IF ~justGotHit(lo)
    THEN [lo EXCEPT !.health = IF lo.health - damage < 0 THEN 0
                               ELSE lo.health - damage,
                    !.invincibilityFrameCounter = 1,
                    !.hits = IF lo.hits < 2 THEN lo.hits + 1 ELSE 2,
                    !.since = 0, !.last = "takeDamage"]
    ELSE [lo EXCEPT !.last = "takeDamage"]

\* The counter after update(dt)
nextFrameCounter(lo) ==
    IF justGotHit(lo)
    THEN IF lo.invincibilityFrameCounter + 1 >= lo.totalInvincibilityFrames
         THEN 0
         ELSE lo.invincibilityFrameCounter + 1
    ELSE lo.invincibilityFrameCounter

heal(lo, amount) ==
    [lo EXCEPT !.health = IF lo.health + amount > lo.maxHealth
                          THEN lo.maxHealth ELSE lo.health + amount,
               !.last = "heal"]

LivingBecomes(lo) ==
    /\ game' = lo
    /\ UNCHANGED <<objs, qt, scene, pair>>

LivingTakeDamage(damage) == LivingBecomes(takeDamage(game, damage))

\* update(dt); the step of PhysicsObject touches neither health nor counter.
LivingUpdate ==
    LivingBecomes([game EXCEPT
        !.invincibilityFrameCounter = nextFrameCounter(game),
        !.since = IF game.since >= 0
                     /\ game.since <= game.totalInvincibilityFrames
                  THEN game.since + 1 ELSE game.since,
        !.last = "update"])

LivingHeal(amount) == LivingBecomes(heal(game, amount))

InitLiving ==
    /\ objs = <<>>
    /\ qt = NewTree(QTBounds)
    /\ \E m \in MaxHealths, t \in TotalFrames : game = NewLivingObject(m, t)
    /\ scene = NewScene
    /\ pair = NoPair

NextLiving ==
    \/ \E damage \in Damages : LivingTakeDamage(damage)
    \/ LivingUpdate
    \/ \E amount \in HealAmounts : LivingHeal(amount)

SpecLiving == InitLiving /\ [][NextLiving]_vars

---------------------------------------------------------------------------
(* GameObjectState: the frames of an animation and its timer *)

MaxFrameObjects == 3     \* frames of a state
MaxAnimUpdates == 10     \* updates of a state

\* The durations handed to createFrame, in the numbers of the model: none
\* that counts (0, a half), whole numbers of updates, one and a half, NaN.
GivenDurations == {0, Half, Unit, Unit + Half, 2 * Unit, NaN}

\* FrameObject (constructor): the duration a frame keeps
frameDuration(duration) ==
    IF duration = NaN \/ duration < Unit THEN Unit ELSE duration

FrameDurations == {frameDuration(d) : d \in GivenDurations}

\* The sum of the durations of the first n frames
RECURSIVE durationBefore(_, _)
durationBefore(frameObjects, n) ==
    IF n = 0 THEN 0
    ELSE durationBefore(frameObjects, n - 1) + frameObjects[n]

\* new GameObjectState() after addFrame for each of the frames. frameId
\* counts from 0 and frameObjects from 1; updates counts the calls of
\* update, fromStart tells that nothing but update has run since frame 0
\* with timer 0, frame is the argument of the last setCurrentFrame.
NewGameObjectState(frameObjects) ==
    [frameObjects |-> frameObjects, animationTimer |-> 0, frameId |-> 0,
     updates |-> 0, fromStart |-> TRUE, frame |-> 0, last |-> "new"]

\* update(dt) with a switch only once the timer is past the duration
stateUpdateLate(st) ==
    IF st.animationTimer + Unit > st.frameObjects[st.frameId + 1]
    THEN [st EXCEPT !.animationTimer = 0,
                    !.frameId = (st.frameId + 1) % Len(st.frameObjects)]
    ELSE [st EXCEPT !.animationTimer = st.animationTimer + Unit]

\* update(dt)
stateUpdate(st) ==
    IF st.animationTimer + Unit >= st.frameObjects[st.frameId + 1]
    THEN [st EXCEPT !.animationTimer = 0,
                    !.frameId = (st.frameId + 1) % Len(st.frameObjects)]
    ELSE [st EXCEPT !.animationTimer = st.animationTimer + Unit]

getCurrentFrame(st) ==
    durationBefore(st.frameObjects, st.frameId) + st.animationTimer

\* The loop of setCurrentFrame from frame i (counted from 1) on
RECURSIVE setCurrentFrameFrom(_, _, _)
setCurrentFrameFrom(st, frame, i) ==
    IF i > Len(st.frameObjects)
    THEN [st EXCEPT !.frameId = 0, !.animationTimer = 0]
    ELSE IF durationBefore(st.frameObjects, i) >= frame
         THEN [st EXCEPT
                 !.frameId = i - 1,
                 !.animationTimer =
                     st.frameObjects[i]
                     - (durationBefore(st.frameObjects, i) - frame)]
         ELSE setCurrentFrameFrom(st, frame, i + 1)

setCurrentFrame(st, frame) == setCurrentFrameFrom(st, frame, 1)

\* The arguments of setCurrentFrame: every half from 0 to past the end
FramesToSet(st) ==
    {h * Half : h \in 0..((durationBefore(st.frameObjects,
                                          Len(st.frameObjects)) \div Half) + 2)}

StateBecomes(st) ==
    /\ game' = st
    /\ UNCHANGED <<objs, qt, scene, pair>>

StateUpdate ==
    /\ game.updates < MaxAnimUpdates
    /\ StateBecomes([stateUpdate(game) EXCEPT !.updates = game.updates + 1,
                                              !.last = "update"])

StateSetCurrentFrame(frame) ==
    StateBecomes([setCurrentFrame(game, frame) EXCEPT !.fromStart = FALSE,
                                                      !.frame = frame,
                                                      !.last = "set"])

InitState ==
    /\ objs = <<>>
    /\ qt = NewTree(QTBounds)
    /\ \E n \in 1..MaxFrameObjects :
          \E f \in [1..n -> FrameDurations] : game = NewGameObjectState(f)
    /\ scene = NewScene
    /\ pair = NoPair

NextState ==
    \/ StateUpdate
    \/ \E frame \in FramesToSet(game) : StateSetCurrentFrame(frame)

SpecState == InitState /\ [][NextState]_vars

---------------------------------------------------------------------------
(* Claims *)

\* C1: any two stored bodies whose cached AABBs overlap are candidates of
\* each other: retrieve for one returns a list containing the other.
C1_BroadPhaseComplete ==
    \A a \in Stored(qt) : \A b \in Stored(qt) :
        checkBroadPhaseCollision(objs[a].calculationCache,
                                 objs[b].calculationCache)
            => b \in Range(retrieve(qt, Caches(objs), <<>>, <<>>, a))

\* The tree has split and two overlapping bodies sit in different children.
C1_Reached ==
    /\ qt[<<>>].hasNodes
    /\ \E a \in Stored(qt) : \E b \in Stored(qt) :
          /\ a # b
          /\ checkBroadPhaseCollision(objs[a].calculationCache,
                                      objs[b].calculationCache)

\* C2: retrieve([], b) for an inserted body b, queried with the cache it was
\* inserted with, returns a list that contains b.
C2_RetrieveContainsSelf ==
    qt.retrieved # 0 => ~qt.threw /\ qt.retrieved \in Range(qt.list)

\* C3: when Scene.update returns, every live body is in exactly one bucket
\* cell and exactly once in that cell.  The grid the update leaves is the one
\* it has at its last step.
C3_BucketsPartition ==
    scene.pc = "overlaps" =>
        \A b \in Range(scene.layer) :
            Cardinality({cn \in UNION {{<<c, n>> : n \in DOMAIN scene.buckets.cell[c]} :
                                       c \in DOMAIN scene.buckets.cell} :
                            scene.buckets.cell[cn[1]][cn[2]] = b}) = 1

\* C4: a body whose removeGameObject returned, and that was not added again,
\* is in no bucket cell and in none of the three lists, and no later update
\* puts it into a bucket or the quadtree or calls its update(dt).  Bodies
\* for which a removeGameObject threw are left aside.
C4_RemovedIsPurged ==
    \A b \in scene.removed \ scene.removeThrew :
        /\ \A c \in DOMAIN scene.buckets.cell : b \notin Range(scene.buckets.cell[c])
        /\ b \notin Range(scene.nearbyGameObjects)
        /\ b \notin Range(scene.gameObjectsToUpdate)
        /\ b \notin Range(scene.persistingGameObjects)
        /\ scene.pc # "idle" =>
               b \notin scene.bucketed \cup scene.inserted \cup scene.updated

\* C5: no step of _handleCollisions (_resetCollisionData and _cacheData,
\* checkCollision, _finalizeCollision with its resolveCollisions) changes the
\* position or the velocity of a fixed body.
C5_FixedBodyStays ==
    [][scene.pc \in {"pass", "find", "finalize"} =>
          \A b \in DOMAIN objs :
              objs[b].fixed => /\ objs'[b].position = objs[b].position
                               /\ objs'[b].velocity = objs[b].velocity]_vars

\* _finalizeCollision has run for a moving body and a fixed one that has a
\* velocity.
C5_Reached ==
    /\ scene.pc = "find"
    /\ scene.data.colliding /\ scene.data.hasContactPoint
    /\ scene.obj1 \in DOMAIN objs
    /\ objs[scene.obj1].fixed
    /\ objs[scene.obj1].velocity # ZeroVec

\* C6: the dt handed to Scene.update is never greater than 1.
C6_DtAtMostOne == game.sceneDt <= Unit

\* A frame longer than 1 has been cut down and its excess banked.
C6_Clamped == game.scene /\ game.excessDt > 0 /\ game.sceneDt = Unit

\* C7: _handleCollisions runs at most collisionIterations passes, and no
\* pass is running after a pass that left _collisionObjects empty.
C7_PassesBounded ==
    /\ scene.passes <= scene.collisionIterations
    /\ scene.emptyPass => scene.pc \notin {"pass", "find", "finalize"}

\* The loop stopped at a pass without a collision, after passes with one.
C7_Reached ==
    /\ scene.emptyPass
    /\ scene.passes > 1
    /\ scene.passes < scene.collisionIterations

\* C8: _finalizeCollision changes no body's position and no body's velocity.
C8_FinalizeDefers ==
    [][scene.pc = "finalize" =>
          \A b \in DOMAIN objs : /\ objs'[b].position = objs[b].position
                                 /\ objs'[b].velocity = objs[b].velocity]_vars

\* C9: within one pass checkCollision is invoked at most once for each
\* unordered pair of bodies.
C9_PairCheckedOnce ==
    \A q \in DOMAIN scene.checked : scene.checked[q] <= 1

\* A pass is over in which a pair of two bodies that both look for
\* collisions has been checked.
C9_Reached ==
    /\ scene.pc = "find"
    /\ scene.i > Len(scene.needNarrowPhase)
    /\ \E a \in Range(scene.needBroadPhase) : \E b \in Range(scene.needBroadPhase) :
          a # b /\ {a, b} \in DOMAIN scene.checked

\* C10: when the collision pipeline of a tick begins, every body in the
\* quadtree has the cached position it was inserted with.
C10_InsertedWhereCached ==
    (scene.pc = "pass" /\ scene.k = 0) =>
        \A b \in scene.inserted :
            scene.insertedAt[b] = Vec2(objs[b].calculationCache.x,
                                       objs[b].calculationCache.y)

\* C11: the penetration depth is split by inverse mass.  After
\* _finalizeCollision of two bodies that are not fixed, body 0 has moved
\* against the direction by depth * m1 / (m0 + m1) and body 1 along it by
\* depth * m0 / (m0 + m1); if one of them is fixed it has not moved and the
\* other has moved by the whole depth.  The depth is the one the function
\* works with, the contact depth and the millimetre it adds.
C11_DepthSplitByInverseMass ==
    PairAt("finalized") =>
        LET obj0 == pair.before[1]
            obj1 == pair.before[2]
            direction == pair.data.direction
            totalDepth == pair.data.contactPoint.depth ++ Milli
            depth0 == IF obj0.fixed THEN 0
                      ELSE IF obj1.fixed THEN totalDepth
                      ELSE Div(Mul(totalDepth, obj1.mass),
                               obj0.mass ++ obj1.mass)
            depth1 == IF obj1.fixed THEN 0
                      ELSE IF obj0.fixed THEN totalDepth
                      ELSE Div(Mul(totalDepth, obj0.mass),
                               obj0.mass ++ obj1.mass)
        IN  /\ subtract(objs[1].position, obj0.position)
                   = multiply(direction, 0 - depth0)
            /\ subtract(objs[2].position, obj1.position)
                   = multiply(direction, depth1)

\* Two bodies of different masses, neither fixed, have been through
\* _finalizeCollision.
C11_Reached ==
    /\ PairAt("finalized")
    /\ ~pair.before[1].fixed /\ ~pair.before[2].fixed
    /\ pair.before[1].mass # pair.before[2].mass
    /\ pair.data.contactPoint.depth > 0

\* The momentum m0 * v0 + m1 * v1 of two bodies.
MomentumOfPair(os) ==
    Vec2(Mul(os[1].mass, os[1].velocity.x) ++ Mul(os[2].mass, os[2].velocity.x),
         Mul(os[1].mass, os[1].velocity.y) ++ Mul(os[2].mass, os[2].velocity.y))

\* C12: momentum is exchanged.  After _finalizeCollision, with its two
\* calls of resolveCollisions, of two bodies that are not fixed and have
\* restitution 1, m0 * v0 + m1 * v1 is what it was before; if the masses
\* are equal, the friction is zero and the velocities lie along the
\* direction of the collision, each body has the velocity the other had.
C12_MomentumExchanged ==
    (/\ PairAt("finalized")
     /\ ~pair.before[1].fixed /\ ~pair.before[2].fixed
     /\ pair.before[1].restitution = Unit /\ pair.before[2].restitution = Unit)
        => /\ MomentumOfPair(objs) = MomentumOfPair(pair.before)
           /\ (/\ pair.before[1].mass = pair.before[2].mass
               /\ pair.before[1].friction = 0 /\ pair.before[2].friction = 0
               /\ dot(pair.before[1].velocity,
                      getOrthogonal(pair.data.direction)) = 0
               /\ dot(pair.before[2].velocity,
                      getOrthogonal(pair.data.direction)) = 0)
                  => /\ objs[1].velocity = pair.before[2].velocity
                     /\ objs[2].velocity = pair.before[1].velocity

\* Two bodies of restitution 1 and one mass that moved head-on have been
\* through _finalizeCollision.
C12_Swapped ==
    /\ PairAt("finalized")
    /\ pair.before[1].restitution = Unit /\ pair.before[2].restitution = Unit
    /\ pair.before[1].mass = pair.before[2].mass
    /\ ~pair.before[2].fixed
    /\ pair.before[1].velocity.x > 0 /\ pair.before[1].velocity.y = 0
    /\ pair.before[2].velocity.x < 0
    /\ pair.data.direction.y = 0

\* The overlap of the AABBs of two caches on the x and on the y axis: the
\* smaller of the two far sides less the larger of the two near sides.
OverlapX(c, oc) ==
    MathMin(c.x ++ c.aabbHalfWidth, oc.x ++ oc.aabbHalfWidth)
        -- MathMax(c.x -- c.aabbHalfWidth, oc.x -- oc.aabbHalfWidth)
OverlapY(c, oc) ==
    MathMin(c.y ++ c.aabbHalfHeight, oc.y ++ oc.aabbHalfHeight)
        -- MathMax(c.y -- c.aabbHalfHeight, oc.y -- oc.aabbHalfHeight)

\* C13: SAT on squares.  For two squares that are not rotated,
\* checkNarrowPhaseCollision returns false if they are separated on the x or
\* on the y axis and true if they overlap on both; then collisionData is
\* colliding and its direction lies along the axis, x or y, on which the
\* overlap of the two squares is smallest.
C13_SatOnSquares ==
    PairAt("narrow") =>
        LET c == objs[1].calculationCache
            oc == objs[2].calculationCache
            data == pair.narrow.data
        IN  IF OverlapX(c, oc) < 0 \/ OverlapY(c, oc) < 0
            THEN ~pair.narrow.result
            ELSE /\ pair.narrow.result
                 /\ data.colliding
                 /\ OverlapX(c, oc) < OverlapY(c, oc)
                        => data.direction.y = 0 /\ data.direction.x # 0
                 /\ OverlapY(c, oc) < OverlapX(c, oc)
                        => data.direction.x = 0 /\ data.direction.y # 0
                 /\ \/ data.direction.y = 0 /\ data.direction.x # 0
                    \/ data.direction.x = 0 /\ data.direction.y # 0

\* The narrow phase has found two squares overlapping less on the y axis
\* than on the x axis.
C13_Reached ==
    /\ PairAt("narrow")
    /\ pair.narrow.result
    /\ OverlapY(objs[1].calculationCache, objs[2].calculationCache) >= 0
    /\ OverlapY(objs[1].calculationCache, objs[2].calculationCache)
           < OverlapX(objs[1].calculationCache, objs[2].calculationCache)
    /\ pair.narrow.data.direction.x = 0

\* The axes the narrow phase goes through for the two bodies, this body's
\* normals and then the other's, and the projections of the bodies on them.
PairAxes == satGetAxes(objs[1]) \o satGetAxes(objs[2])
PairProjection1(i) == satGetProjectionOntoAxis(objs[1], PairAxes[i])
PairProjection2(i) == satGetProjectionOntoAxis(objs[2], PairAxes[i])

\* The amount by which the two projections on axis i overlap, and the
\* length from the near end of this body's to the far end of the other's.
OverlapOn(i) ==
    MathMin(PairProjection1(i).max, PairProjection2(i).max)
        -- MathMax(PairProjection1(i).min, PairProjection2(i).min)
DisplacementLengthOn(i) ==
    MathAbs(PairProjection2(i).max -- PairProjection1(i).min)

\* The first axis in list order on which the measure is the least.
FirstLeast(Measure(_)) ==
    CHOOSE i \in DOMAIN PairAxes :
        /\ \A j \in DOMAIN PairAxes : Measure(i) <= Measure(j)
        /\ \A j \in 1..(i - 1) : Measure(i) < Measure(j)

\* An axis, turned so that it does not point from the other body's centre
\* to this body's.
TowardOther(axis) ==
    IF dot(Vec2(objs[2].calculationCache.x -- objs[1].calculationCache.x,
                objs[2].calculationCache.y -- objs[1].calculationCache.y),
           axis) < 0
    THEN multiply(axis, 0 - Unit) ELSE axis

\* C14: if no axis separates the bodies, the direction of
\* checkNarrowPhaseCollision is the first axis in list order on which the
\* projections overlap by the least amount, the smaller maximum less the
\* larger minimum, turned toward the other body.
C14_LeastOverlapAxis ==
    (PairAt("narrow") /\ pair.narrow.result) =>
        pair.narrow.data.direction = TowardOther(PairAxes[FirstLeast(OverlapOn)])

\* The narrow phase has found two bodies that overlap by the same amount on
\* the x and on the y axis, the least displacement length being on two axes.
C14_Reached ==
    /\ PairAt("narrow")
    /\ pair.narrow.result
    /\ \E i \in DOMAIN PairAxes : \E j \in DOMAIN PairAxes :
          /\ i < j
          /\ PairAxes[i] # PairAxes[j]
          /\ DisplacementLengthOn(i) = DisplacementLengthOn(j)
          /\ \A k \in DOMAIN PairAxes :
                DisplacementLengthOn(i) <= DisplacementLengthOn(k)

\* C15: the overlap test of two AABBs is symmetric, and it is false exactly
\* if the boxes are strictly separated on the x or on the y axis.
C15_BroadPhaseSymmetric ==
    pair.pc \in {"broad", "narrow"} =>
        /\ pair.broad = pair.broadReverse
        /\ ~pair.broad
               <=> \/ OverlapX(objs[1].calculationCache,
                               objs[2].calculationCache) < 0
                   \/ OverlapY(objs[1].calculationCache,
                               objs[2].calculationCache) < 0

\* The broad phase has been asked about two boxes that overlap on the x axis
\* and are separated on the y axis.
C15_Reached ==
    /\ PairAt("broad")
    /\ ~pair.broad
    /\ OverlapX(objs[1].calculationCache, objs[2].calculationCache) > 0
    /\ OverlapY(objs[1].calculationCache, objs[2].calculationCache) < 0

\* C16: _handleOverlaps changes no body's position, velocity, acceleration
\* or sums, and every onOverlap it calls is called on a body whose
\* allowOverlapEvents is true.
C16_OverlapsOnlyNotify ==
    [][scene.pc = "overlaps" =>
          /\ \A b \in DOMAIN objs :
                /\ objs'[b].position = objs[b].position
                /\ objs'[b].velocity = objs[b].velocity
                /\ objs'[b].acceleration = objs[b].acceleration
                /\ objs'[b].collisionDisplacementSum
                       = objs[b].collisionDisplacementSum
                /\ objs'[b].collisionSurfaceImpulseSum
                       = objs[b].collisionSurfaceImpulseSum
                /\ objs'[b].collisionMomentumSum = objs[b].collisionMomentumSum
          /\ \A n \in DOMAIN scene'.overlapped :
                objs[scene'.overlapped[n][1]].allowOverlapEvents]_vars

\* _handleOverlaps has called onOverlap on a body for a body that takes no
\* overlap events itself.
C16_Reached ==
    /\ scene.pc = "idle"
    /\ \E n \in DOMAIN scene.overlapped :
          /\ objs[scene.overlapped[n][1]].allowOverlapEvents
          /\ ~objs[scene.overlapped[n][2]].allowOverlapEvents

\* C17: the overlap notification does not depend on the collision pipeline.
\* When _handleOverlaps returns, A.onOverlap(B) has been called for every
\* updated body A with allowOverlapEvents and every other body B in the
\* quadtree whose cached AABB overlaps A's.
C17_OverlapsComplete ==
    [][scene.pc = "overlaps" =>
          \A a \in scene.updated : \A b \in Stored(qt) :
              (/\ a # b
               /\ objs[a].allowOverlapEvents
               /\ checkBroadPhaseCollision(objs[a].calculationCache,
                                           objs[b].calculationCache))
                  => <<a, b>> \in Range(scene'.overlapped)]_vars

\* C18: a pair of bodies of which one is turned down by the canCollide of
\* the other is never handed to checkCollision and never to
\* _finalizeCollision.
C18_FilteredNeverTested ==
    \A a \in DOMAIN objs : \A b \in DOMAIN objs :
        (b \in objs[a].ignores \/ a \in objs[b].ignores)
            => /\ {a, b} \notin DOMAIN scene.checked
               /\ ~(scene.pc = "finalize" /\ {scene.obj0, scene.obj1} = {a, b})

\* A pass has gone through its candidates while two bodies whose AABBs
\* overlap were both looking for collisions, one turning the other down.
C18_Reached ==
    /\ scene.pc = "find"
    /\ scene.i > Len(scene.needNarrowPhase)
    /\ DOMAIN scene.checked # {}
    /\ \E a \in Range(scene.needBroadPhase) :
          \E b \in Range(scene.needBroadPhase) :
              /\ b \in objs[a].ignores
              /\ checkBroadPhaseCollision(objs[a].calculationCache,
                                          objs[b].calculationCache)

\* The subnodes of the node at p.
Subnodes(p) == {Append(p, i) : i \in 0..3} \cap DOMAIN qt

\* C19: after any inserts no node has a level above MAX_LEVELS, every node
\* has no subnodes or four, which are one level below it and have one width
\* and one height, and a node without subnodes at a level below MAX_LEVELS
\* holds at most MAX_OBJECTS objects.
C19_CapacityAndDepth ==
    \A p \in DOMAIN qt :
        /\ qt[p].level <= MAX_LEVELS
        /\ Cardinality(Subnodes(p)) = IF qt[p].hasNodes THEN 4 ELSE 0
        /\ \A q \in Subnodes(p) :
              /\ qt[q].level = qt[p].level + 1
              /\ \A r \in Subnodes(p) :
                    /\ qt[q].bounds.width = qt[r].bounds.width
                    /\ qt[q].bounds.height = qt[r].bounds.height
        /\ (~qt[p].hasNodes /\ qt[p].level < MAX_LEVELS)
               => Len(qt[p].objects) <= MAX_OBJECTS

\* The tree has grown to MAX_LEVELS, and the node there holds more than
\* MAX_OBJECTS objects.
C19_Reached ==
    \E p \in DOMAIN qt :
        qt[p].level = MAX_LEVELS /\ Len(qt[p].objects) > MAX_OBJECTS

\* The AABB of a cache lies within bounds, their edges included, and it lies
\* within them without touching an edge.
AabbWithin(c, bounds) ==
    /\ c.x - c.aabbHalfWidth >= bounds.x
    /\ c.x + c.aabbHalfWidth <= bounds.x + bounds.width
    /\ c.y - c.aabbHalfHeight >= bounds.y
    /\ c.y + c.aabbHalfHeight <= bounds.y + bounds.height
AabbInside(c, bounds) ==
    /\ c.x - c.aabbHalfWidth > bounds.x
    /\ c.x + c.aabbHalfWidth < bounds.x + bounds.width
    /\ c.y - c.aabbHalfHeight > bounds.y
    /\ c.y + c.aabbHalfHeight < bounds.y + bounds.height

\* C20: after any inserts every body is stored at the deepest node whose
\* quadrant holds its whole cached AABB: the AABB of a body stored in a
\* subnode lies within the bounds of that subnode, and a body stored in a
\* node that has subnodes lies inside none of them.
C20_StoredWhereItFits ==
    \A p \in DOMAIN qt : \A b \in Range(qt[p].objects) :
        /\ p # <<>> => AabbWithin(objs[b].calculationCache, qt[p].bounds)
        /\ \A q \in Subnodes(p) :
              ~AabbInside(objs[b].calculationCache, qt[q].bounds)

\* A node has split and a body has gone down into one of its subnodes.
C20_Reached ==
    \E p \in DOMAIN qt : p # <<>> /\ qt[p].objects # <<>>

\* The objects of the node at p of a tree, as a set; none where the tree has
\* no such node.
ObjectsAt(t, p) == IF p \in DOMAIN t THEN Range(t[p].objects) ELSE {}

\* C21: inserting a body that is stored already, its cached position and
\* AABB unchanged, leaves the set of objects of every node and the list any
\* retrieve returns as they were.
C21_InsertIdempotent ==
    [][(objs' = objs /\ objs # <<>>) =>
          /\ \A p \in DOMAIN qt \cup DOMAIN qt' :
                ObjectsAt(qt', p) = ObjectsAt(qt, p)
          /\ \A b \in DOMAIN objs :
                retrieve(qt', Caches(objs), <<>>, <<>>, b)
                    = retrieve(qt, Caches(objs), <<>>, <<>>, b)]_vars

\* A body was handed to insert a second time.
C21_Reached == Entries(qt) > Cardinality(DOMAIN objs)

\* The bodies of the cluster.
Clustered == {b \in DOMAIN objs : ClusterKind(objs[b]) = 1}

\* C22: in a quadtree over (0, 0, 100, 100) that received eleven bodies with
\* small AABBs centred at (1, 1) and nothing else, the root has split, which
\* it had not for ten, and retrieve for each of the eleven returns a list
\* that holds the ten others.
C22_ClusterSplitsAndRetrieves ==
    (Clustered = DOMAIN objs /\ Entries(qt) = Cardinality(DOMAIN objs)) =>
        /\ qt[<<>>].hasNodes <=> Cardinality(Clustered) > MAX_OBJECTS
        /\ Cardinality(Clustered) = MAX_OBJECTS + 1 =>
              \A a \in Clustered :
                  Clustered \ {a}
                      \subseteq Range(retrieve(qt, Caches(objs), <<>>, <<>>, a))

\* The eleventh body of the cluster has been inserted.
C22_Reached ==
    /\ Clustered = DOMAIN objs /\ Entries(qt) = Cardinality(DOMAIN objs)
    /\ Cardinality(Clustered) = MAX_OBJECTS + 1
    /\ qt[<<>>].hasNodes

\* The full partition has just been run twice.
JustPartitioned ==
    /\ pair.pc = "partitioned" /\ scene.pc = "idle"
    /\ pair.calls = scene.calls /\ pair.ticks = scene.ticks

\* C23: _createBuckets and _partitionGameObjectsIntoBuckets over all live
\* bodies, run twice in succession with no body moved in between, give the
\* same grid bounds, the same dimensions and the same contents of every
\* cell as one run.
C23_RepartitionIdempotent == JustPartitioned => GridOf(Now) = pair.first

\* The partition ran twice on a grid of several cells that a tick had
\* filled before, with bodies in different cells.
C23_Reached ==
    /\ JustPartitioned /\ scene.ticks >= 1 /\ ~scene.threw
    /\ \E c, d \in Cells(scene.buckets) :
          c # d /\ scene.buckets.cell[c] # <<>> /\ scene.buckets.cell[d] # <<>>

\* update(dt) begins and gets past _updateBuckets.
TickStarted == scene.pc = "idle" /\ scene'.pc = "insert"

\* The cached AABB of a body touches or exceeds the outer bound of the grid
\* (a NaN coordinate compares false with every bound).
TouchesBound(b) ==
    LET c == objs[b].calculationCache
        config == scene.bucketConfig
    IN  \/ Le(c.x -- c.aabbHalfWidth, config.minX)
        \/ Ge(c.x ++ c.aabbHalfWidth, config.maxX)
        \/ Le(c.y -- c.aabbHalfHeight, config.minY)
        \/ Ge(c.y ++ c.aabbHalfHeight, config.maxY)

\* What a step of _updateBuckets did: the grid was built anew from all live
\* bodies, or it kept its bounds and cells and only the bodies of the last
\* tick and the newly added ones were put into cells.
RebuiltFromAll ==
    /\ scene'.buckets = partitionAll(Now).scene.buckets
    /\ GridOf(World(objs', qt', scene')).minX = GridOf(partitionAll(Now)).minX
    /\ GridOf(World(objs', qt', scene')).maxX = GridOf(partitionAll(Now)).maxX
    /\ GridOf(World(objs', qt', scene')).minY = GridOf(partitionAll(Now)).minY
    /\ GridOf(World(objs', qt', scene')).maxY = GridOf(partitionAll(Now)).maxY
    /\ scene'.bucketed = Range(scene.layer)
OnlyNearRebucketed ==
    /\ scene'.buckets.nx = scene.buckets.nx /\ scene'.buckets.ny = scene.buckets.ny
    /\ scene'.bucketConfig.minX = scene.bucketConfig.minX
    /\ scene'.bucketConfig.maxX = scene.bucketConfig.maxX
    /\ scene'.bucketConfig.minY = scene.bucketConfig.minY
    /\ scene'.bucketConfig.maxY = scene.bucketConfig.maxY
    /\ scene'.bucketed = Range(scene.gameObjectsToUpdate)
                             \cup Range(scene.nonPartitionedGameObjects)

\* C24 as stated: at each _updateBuckets the grid is rebuilt from all live
\* bodies if the cached AABB of any live body touches or exceeds the outer
\* bound of the grid or a resize has set the force flag, and only otherwise
\* just the cells around the camera are filled again.
C24_AnyLiveBodyForces ==
    [][TickStarted =>
          IF scene.bucketConfig.forceCalc
             \/ \E b \in Range(scene.layer) : TouchesBound(b)
          THEN RebuiltFromAll ELSE OnlyNearRebucketed]_vars

\* C24, amended: at each _updateBuckets the grid is rebuilt from all live
\* bodies if the force flag is set (by a resize, or by addGameObject for a
\* body out of range) or if the cached AABB of a body of the last tick's
\* _gameObjectsToUpdate touches or exceeds the outer bound of the grid;
\* only otherwise just the cells around the camera are filled again.  A
\* live body that the last tick did not update is not looked at.
C24_UpdatedBodyForces ==
    [][TickStarted =>
          IF scene.bucketConfig.forceCalc
             \/ \E b \in Range(scene.gameObjectsToUpdate) : TouchesBound(b)
          THEN RebuiltFromAll ELSE OnlyNearRebucketed]_vars

\* A second tick has rebuilt the grid from all live bodies, more than it
\* updates, without a resize or a new body.
C24_Reached ==
    /\ scene.pc = "insert" /\ scene.ticks >= 1 /\ scene.calls = 0
    /\ scene.bucketed = Range(scene.layer)
    /\ Range(scene.gameObjectsToUpdate) # Range(scene.layer)

\* The centres a lookup is asked about: the cached positions of the live
\* bodies and the position of the camera.
LookupCentres ==
    {Vec2(objs[b].calculationCache.x, objs[b].calculationCache.y) :
        b \in Range(scene.layer)} \cup {scene.camera.position}

\* A centre lies within the bounds of the grid.
InGrid(c) ==
    /\ scene.bucketConfig.minX <= c.x /\ c.x <= scene.bucketConfig.maxX
    /\ scene.bucketConfig.minY <= c.y /\ c.y <= scene.bucketConfig.maxY

\* How often b occurs in a list, and in the cells of a set.
Occurrences(list, b) == Cardinality({i \in DOMAIN list : list[i] = b})
RECURSIVE OccurrencesIn(_, _)
OccurrencesIn(cells, b) ==
    IF cells = {} THEN 0
    ELSE LET c == CHOOSE d \in cells : TRUE
         IN  Occurrences(scene.buckets.cell[c], b) + OccurrencesIn(cells \ {c}, b)

\* The cell that holds v along an axis of n cells between min and max: the
\* cells divide the indices 0..n-1 evenly over min..max, so it is the last
\* index i with i / (n - 1) <= (v - min) / (max - min).
CellAlong(n, v, min, max) ==
    CHOOSE i \in 0..(n - 1) :
        /\ i * (max - min) <= (n - 1) * (v - min)
        /\ \A j \in 0..(n - 1) :
              j * (max - min) <= (n - 1) * (v - min) => j <= i

\* The existing cells within r of the cell that holds the centre c.
CellsAround(c, r) ==
    {d \in Cells(scene.buckets) :
        /\ d[1] - CellAlong(scene.buckets.nx, c.x, scene.bucketConfig.minX,
                            scene.bucketConfig.maxX) \in (0 - r)..r
        /\ d[2] - CellAlong(scene.buckets.ny, c.y, scene.bucketConfig.minY,
                            scene.bucketConfig.maxY) \in (0 - r)..r}

\* C25: for a centre within the grid and a radius r,
\* _findSurroundingBucketIndices returns the existing cells (i, j) with
\* |i - cx| <= r and |j - cy| <= r around the cell (cx, cy) that holds the
\* centre, each once, and _findSurroundingGameObjects returns the bodies
\* stored in those cells; the bodies a tick takes as nearby are those of
\* radius 1 around the camera.
C25_SurroundingCellsExact ==
    scene.buckets.ny > 0 =>
        \A c \in LookupCentres : InGrid(c) =>
            /\ \A r \in 0..MaxRadius :
                  /\ ~findSurroundingBucketIndices(scene, c, r).threw
                  /\ Range(findSurroundingBucketIndices(scene, c, r).cells)
                        = CellsAround(c, r)
                  /\ Len(findSurroundingBucketIndices(scene, c, r).cells)
                        = Cardinality(CellsAround(c, r))
                  /\ \A b \in DOMAIN objs :
                        Occurrences(findSurroundingGameObjects(scene, c, r), b)
                            = OccurrencesIn(CellsAround(c, r), b)
            /\ (scene.pc = "insert" /\ c = scene.camera.position) =>
                  \A b \in DOMAIN objs :
                      Occurrences(scene.nearbyGameObjects, b)
                          = OccurrencesIn(CellsAround(c, 1), b)

\* A tick has looked around a camera within a grid of more than three
\* columns, and found some of the live bodies and not others.
C25_Reached ==
    /\ scene.pc = "insert" /\ InGrid(scene.camera.position)
    /\ scene.buckets.nx > 3
    /\ scene.nearbyGameObjects # <<>>
    /\ Range(scene.nearbyGameObjects) # Range(scene.layer)

\* The grid has been built and has no extent along x, along y.
ZeroExtentX ==
    scene.buckets.ny > 0 /\ scene.bucketConfig.maxX = scene.bucketConfig.minX
ZeroExtentY ==
    scene.buckets.ny > 0 /\ scene.bucketConfig.maxY = scene.bucketConfig.minY

\* C26: when the grid has no extent along an axis, so that the index ratio
\* is 0/0, the index the partition computes and the index the lookup
\* computes for that axis are both 0, for the live bodies and for the
\* camera, and the partition has addressed no cell that does not exist.
C26_ZeroExtentIndexIsZero ==
    /\ ZeroExtentX =>
          /\ scene.buckets.nx = 1
          /\ \A c \in LookupCentres :
                /\ bucketOf(scene, c).x = 0
                /\ \A d \in Range(findSurroundingBucketIndices(scene, c, 0).cells) :
                      d[1] = 0
                /\ InGrid(c) => findSurroundingBucketIndices(scene, c, 0).cells # <<>>
    /\ ZeroExtentY =>
          /\ scene.buckets.ny = 1
          /\ \A c \in LookupCentres :
                /\ bucketOf(scene, c).y = 0
                /\ \A d \in Range(findSurroundingBucketIndices(scene, c, 0).cells) :
                      d[2] = 0
                /\ InGrid(c) => findSurroundingBucketIndices(scene, c, 0).cells # <<>>
    /\ (ZeroExtentX \/ ZeroExtentY) =>
          /\ ~scene.threw
          /\ \A b \in scene.bucketed :
                /\ <<objs[b].bucketPosition.x, objs[b].bucketPosition.y>>
                      \in Cells(scene.buckets)
                /\ ZeroExtentX => objs[b].bucketPosition.x = 0
                /\ ZeroExtentY => objs[b].bucketPosition.y = 0

\* A tick has put bodies into a grid without extent along an axis and has
\* looked up the cells around a camera that lies off that axis.
C26_Reached ==
    /\ scene.pc = "insert" /\ ZeroExtentY
    /\ scene.bucketed = Range(scene.layer)
    /\ scene.camera.position.y # scene.bucketConfig.minY
    /\ scene.nearbyGameObjects # <<>>

\* checkCollision has run for a moving body that passed the broad phase.
Sampled ==
    /\ pair.pc = "checked" /\ "dt" \in DOMAIN pair
    /\ sampleCountOf(pair.before[1]) > 0
    /\ getMagnitude(pair.before[1].velocity) # 0
    /\ checkBroadPhaseCollision(pair.before[1].calculationCache,
                                pair.before[2].calculationCache)

\* The place of the k-th sample of a walk from a position by an increment.
SampleAt(from, increment, k) ==
    Vec2(from.x + k * increment.x, from.y + k * increment.y)

\* The narrow phase reports a collision with the moving body at a place.
NarrowAt(pos) ==
    checkNarrowPhaseCollision(moveTo(pair.before[1], pos), pair.before[2],
                              NoCollisionData).result

\* The samples of a walk of n increments from a position up to the first
\* one at which the narrow phase reports a collision, all n if none does.
SamplesUpToHit(from, increment, n) ==
    IF \E k \in 1..n : NarrowAt(SampleAt(from, increment, k))
    THEN CHOOSE k \in 1..n :
             /\ NarrowAt(SampleAt(from, increment, k))
             /\ \A j \in 1..(k - 1) : ~NarrowAt(SampleAt(from, increment, j))
    ELSE n

\* C27: for a moving body checkCollision starts at the position the body
\* had before the update of this tick, advances it from there in at most
\* MAX_COLLISION_MULTI_SAMPLE_COUNT equal increments, and leaves it at the
\* first increment at which the narrow phase reports a collision, at the
\* last increment if none does.
C27_SampledFromPreviousPosition ==
    Sampled =>
        /\ sampleStart(pair.before[1]).position = pair.before[1].previousPosition
        /\ sampleCountOf(pair.before[1]) <= MAX_COLLISION_MULTI_SAMPLE_COUNT
        /\ objs[1].position =
              SampleAt(sampleStart(pair.before[1]).position,
                       velocityIncrementOf(pair.before[1]),
                       SamplesUpToHit(sampleStart(pair.before[1]).position,
                                      velocityIncrementOf(pair.before[1]),
                                      sampleCountOf(pair.before[1])))

\* checkCollision took the greatest number of samples and stopped at a
\* collision before the last of them.
C27_Reached ==
    /\ Sampled /\ pair.data.colliding
    /\ sampleCountOf(pair.before[1]) = MAX_COLLISION_MULTI_SAMPLE_COUNT
    /\ objs[1].position # pair.before[1].position

\* A vector has a NaN component.
HasNaN(v) == v.x = NaN \/ v.y = NaN

\* C28: every normalize of the collision pipeline is given a vector that
\* is not zero, so that after a collision was finalized, resolveCollisions
\* included, no body has NaN in its acceleration, velocity or position,
\* also when its surface impulse sum was zero.
C28_NoNaNAfterCollision ==
    pair.pc = "finalized" =>
        \A b \in DOMAIN objs :
            /\ ~HasNaN(objs[b].acceleration)
            /\ ~HasNaN(objs[b].velocity)
            /\ ~HasNaN(objs[b].position)

\* A collision was finalized for a body whose surface impulse sum was zero
\* and whose displacement sum let resolveCollisions act.
C28_Reached ==
    /\ pair.pc = "finalized"
    /\ \E b \in DOMAIN objs :
          /\ ~objs[b].fixed
          /\ objs[b].position # pair.before[b].position
          /\ pair.before[b].collisionSurfaceImpulseSum = ZeroVec

\* A body with an edge of zero length: its frame has no width or no height.
ZeroLengthEdge(b) == objs[b].cachedWidth = 0 \/ objs[b].cachedHeight = 0

\* The bounding boxes of the two bodies touch or overlap.
NarrowClose ==
    checkBroadPhaseCollision(objs[1].calculationCache,
                             objs[2].calculationCache)

\* C29: when no valid axis is found (the combined axis list is empty, or a
\* body has an edge of zero length, whose normal is 0/0),
\* checkNarrowPhaseCollision returns false and leaves collisionData as it
\* was: colliding and direction are not set.
C29_DegenerateIsNonColliding ==
    (/\ pair.pc = "checked"
     /\ pair.axes = 0 \/ ZeroLengthEdge(1) \/ ZeroLengthEdge(2))
        => /\ pair.result = FALSE
           /\ pair.data.colliding = FALSE
           /\ pair.data.direction = ZeroVec
           /\ pair.data = NoCollisionData

\* The narrow phase has run over the eight axes of two bodies whose bounding
\* boxes overlap, one of them with an edge of zero length and the other a
\* square that has none.
C29_Reached ==
    /\ pair.pc = "checked"
    /\ pair.axes = 8
    /\ NarrowClose
    /\ ZeroLengthEdge(1)
    /\ ~ZeroLengthEdge(2)
    /\ pair.result = FALSE

\* C30: while a scene is set, after every Game.update the steps handed to
\* Scene.update so far plus the banked _excessDt add up to the raw frame
\* deltas received so far, and _excessDt is never negative.
C30_BankedTimeConserved ==
    /\ game.sceneDts + game.excessDt = game.rawDts
    /\ game.excessDt >= 0

\* Time was banked by a long frame and a later short frame drew on it.
C30_Reached ==
    /\ game.scene /\ game.frames >= 2
    /\ game.excessDt > 0
    /\ game.sceneDt = Unit /\ game.rawDts > game.sceneDts

\* A frame of the game runs while a scene is set that has a next scene.
SwitchFrame ==
    /\ game.scene # NoScene
    /\ game'.frames = game.frames + 1
    /\ game.nextScene[game.scene] # NoScene

\* What the frame does to the scene in place (old) and to its next scene:
\* next is installed, updated and drawn once; old gets no update and no
\* draw, is destroyed once and has its nextScene cleared; no other scene is
\* updated, drawn or destroyed, so the frame switches once.
SwitchedTo(old, next) ==
    /\ game'.scene = next
    /\ game'.updates[next] = game.updates[next] + 1
    /\ game'.draws[next] = game.draws[next] + 1
    /\ game'.updates[old] = game.updates[old]
    /\ game'.draws[old] = game.draws[old]
    /\ game'.destroys[old] = game.destroys[old] + 1
    /\ game'.nextScene[old] = NoScene
    /\ \A s \in Scenes \ {old, next} :
          /\ game'.updates[s] = game.updates[s]
          /\ game'.draws[s] = game.draws[s]
          /\ game'.destroys[s] = game.destroys[s]
    /\ game'.destroys[next] = game.destroys[next] \/ next = old

\* C31: after scene.change(next) the next Game.update installs
\* next before updating, the old scene gets no further update or draw, next
\* is updated and drawn in that frame, the old scene is destroyed exactly
\* once and its nextScene is cleared, and one switch happens per frame.
C31_SwitchOnNextFrame ==
    [][SwitchFrame => SwitchedTo(game.scene, game.nextScene[game.scene])]_vars

\* The same holds for a next scene other than the scene in place; after
\* scene.change(scene) on the scene in place, the frame destroys that scene
\* and then updates and draws it.
C31_SwitchToOtherOnNextFrame ==
    [][(SwitchFrame /\ game.nextScene[game.scene] # game.scene)
           => SwitchedTo(game.scene, game.nextScene[game.scene])]_vars

\* A frame has run after scene.change(scene) on the scene in place: the
\* scene was destroyed and is still installed, updated and drawn.
C31_Reached ==
    /\ game.scene # NoScene
    /\ game.destroys[game.scene] = 1
    /\ game.updates[game.scene] >= 2
    /\ \A s \in Scenes \ {game.scene} :
          game.updates[s] = 0 /\ game.destroys[s] = 0

\* A frame has switched from one scene to another that had a next scene of
\* its own, which is still pending.
SwitchedToOther ==
    /\ game.scene # NoScene
    /\ game.updates[game.scene] = 1
    /\ game.nextScene[game.scene] \notin {NoScene, game.scene}
    /\ \E old \in Scenes \ {game.scene} :
          /\ game.destroys[old] = 1
          /\ game.updates[old] >= 1

\* No removeGameObject has left its mark on the scene.
NothingRemoved == scene.removed = {} /\ scene.removeThrew = {}

\* C32: in every Scene.update, after any adds, camera moves and ticks,
\* _gameObjectsToUpdate holds each body at most once, so a body gets at most
\* one update(dt) and at most one quadtree insert per tick.
C32_UpdatedOncePerTick ==
    NothingRemoved =>
        \A b \in DOMAIN objs : Occurrences(scene.gameObjectsToUpdate, b) <= 1

\* A second tick has chosen its bodies after the camera began to follow a
\* persisting body, and that body is in the list twice.
C32_Reached ==
    /\ scene.pc = "insert"
    /\ scene.ticks >= 1
    /\ NothingRemoved
    /\ scene.camera.followObj # 0
    /\ Occurrences(scene.persistingGameObjects, scene.camera.followObj) = 1
    /\ Occurrences(scene.gameObjectsToUpdate, scene.camera.followObj) >= 2

\* C33: _handleOverlaps never calls X.onOverlap(X), and within one tick it
\* calls A.onOverlap(B) at most once for each ordered pair (A, B), whether
\* the candidates of A come from the cached list or from a fresh retrieve.
C33_NoSelfNoDuplicateOverlap ==
    /\ \A n \in DOMAIN scene.overlapped :
          scene.overlapped[n][1] # scene.overlapped[n][2]
    /\ \A n \in DOMAIN scene.overlapped : \A m \in DOMAIN scene.overlapped :
          scene.overlapped[n] = scene.overlapped[m] => n = m

\* A tick has ended in which a body was told that it overlaps itself.
C33_Reached ==
    /\ scene.pc = "idle"
    /\ scene.ticks >= 1
    /\ \E n \in DOMAIN scene.overlapped :
          scene.overlapped[n][1] = scene.overlapped[n][2]

\* C34: removeGameObject(obj) of a body that was added completes without
\* throwing whatever the body's cached position, also before the first
\* Scene.update (no grid built yet) and when the cached position has no
\* bucket index in the grid.
C34_RemoveNeverThrows == scene.removeThrew = {}

\* A removeGameObject has thrown before the first update of the scene, the
\* body being out of its layer already.
C34_Reached ==
    /\ scene.ticks = 0
    /\ scene.pc = "idle"
    /\ \E b \in scene.removeThrew : b \notin Range(scene.layer)

\* A call of checkCollision returns.
CheckCollisionReturns == pair.pc # "checked" /\ pair'.pc = "checked"

\* The other body keeps its position, its velocity and its accumulators.
OtherUntouched ==
    /\ objs'[2].position = objs[2].position
    /\ objs'[2].velocity = objs[2].velocity
    /\ objs'[2].collisionDisplacementSum = objs[2].collisionDisplacementSum
    /\ objs'[2].collisionSurfaceImpulseSum = objs[2].collisionSurfaceImpulseSum
    /\ objs'[2].collisionMomentumSum = objs[2].collisionMomentumSum

\* C35: if checkCollision(other) returns with contactPoint null, this
\* body's position and cached x, y are what they were before the call; and
\* the other body's position, velocity and accumulators are unchanged in
\* every case.
C35_RestoredWhenNothingHit ==
    [][CheckCollisionReturns =>
          /\ ~pair'.data.hasContactPoint =>
                /\ objs'[1].position = objs[1].position
                /\ objs'[1].calculationCache.x = objs[1].calculationCache.x
                /\ objs'[1].calculationCache.y = objs[1].calculationCache.y
          /\ OtherUntouched]_vars

\* checkCollision has found a contact point on an edge of a body that can
\* move, and that body's surface impulse sum is no longer zero.
C35_Reached ==
    /\ pair.pc = "checked"
    /\ pair.data.hasContactPoint
    /\ pair.data.hasEdgeDirection
    /\ ~objs[2].fixed
    /\ objs[2].collisionSurfaceImpulseSum # ZeroVec

NonSolid == {b \in DOMAIN objs : ~objs[b].solid}

\* A step inside _handleCollisions.
InHandleCollisions == scene.pc \in {"pass", "find", "finalize"}

\* C37: a body with solid = false is never inserted into the quadtree, is
\* never a member of a pair passed to checkCollision or _finalizeCollision,
\* never has its position or velocity changed by _handleCollisions, and
\* never receives onCollide (which only _finalizeCollision calls, on the two
\* members of its pair).
C37_NonSolidStaysOut ==
    [][/\ NonSolid' \cap (Stored(qt') \cup scene'.inserted) = {}
       /\ \A q \in DOMAIN scene'.checked : q \cap NonSolid' = {}
       /\ scene'.pc = "finalize" =>
              {scene'.obj0, scene'.obj1} \cap NonSolid' = {}
       /\ InHandleCollisions =>
              \A b \in NonSolid :
                  /\ objs'[b].position = objs[b].position
                  /\ objs'[b].velocity = objs[b].velocity]_vars

\* Two solid bodies were checked as a pair and are about to be finalized,
\* while a body that is not solid, updated in the same tick, overlaps the
\* first of them.
C37_Reached ==
    /\ scene.pc = "finalize"
    /\ DOMAIN scene.checked # {}
    /\ \E g \in NonSolid :
          /\ g \in scene.updated
          /\ checkBroadPhaseCollision(objs[g].calculationCache,
                                      objs[scene.obj0].calculationCache)

\* C38: for any interleaving of keydown and keyup events, update(), clear(),
\* stop() and start(): whenever needsToBeUpdated is false, previousKeyStates
\* equals keyStates, so right after every update() no key is justPressed or
\* justReleased; justPressed(k) and justReleased(k) are never both true;
\* and right after update() anyKeyPressed is true exactly when some key
\* state is true.
C38_EdgesLastOneFrame ==
    /\ ~game.needsToBeUpdated => game.previousKeyStates = game.keyStates
    /\ game.last = "update" =>
          /\ \A k \in Keys : ~justPressed(game, k) /\ ~justReleased(game, k)
          /\ game.anyKeyPressed <=> \E k \in Keys : game.keyStates[k]
    /\ \A k \in Keys : ~(justPressed(game, k) /\ justReleased(game, k))

\* An update() has just run, nothing waits for the next one, and some key is
\* held while another is not.
C38_Reached ==
    /\ game.last = "update"
    /\ ~game.needsToBeUpdated
    /\ game.anyKeyPressed
    /\ \E k \in Keys : game.keyStates[k]
    /\ \E k \in Keys : ~game.keyStates[k]

\* The updates it takes for the counter to come back to 0 after an applied
\* hit: the counter starts at 1 and is cleared by the update that brings it
\* to totalInvincibilityFrames or beyond, the first update at the latest.
InvincibleUpdates(lo) ==
    IF lo.totalInvincibilityFrames >= 2
    THEN lo.totalInvincibilityFrames - 1 ELSE 1

\* A step of takeDamage(damage) that was applied
DamageApplied ==
    /\ game'.last = "takeDamage"
    /\ game'.since = 0
    /\ game'.invincibilityFrameCounter = 1
    /\ \E damage \in Damages :
          game'.health = IF game.health - damage < 0 THEN 0
                         ELSE game.health - damage

\* The window of C39 for a window of w updates
InvincibilityWindow(w) ==
    /\ game'.last = "takeDamage" /\ game'.health # game.health
          => game.invincibilityFrameCounter = 0
    /\ game'.last = "takeDamage" /\ game.since >= 0 /\ game.since < w
          => game'.health = game.health /\ game'.since = game.since
    /\ game'.since >= w => game'.invincibilityFrameCounter = 0
    /\ game'.last = "takeDamage" /\ game.since >= w => DamageApplied
    /\ game'.health >= 0

WholeUpdates(duration) == ((duration + Unit - 1) \div Unit) * Unit

RECURSIVE wholeUpdatesBefore(_, _)
wholeUpdatesBefore(frameObjects, n) ==
    IF n = 0 THEN 0
    ELSE wholeUpdatesBefore(frameObjects, n - 1) + WholeUpdates(frameObjects[n])

\* An update from the start that ends the showing of a frame
FrameEnds ==
    /\ game.fromStart /\ game'.fromStart
    /\ game'.last = "update" /\ game'.updates = game.updates + 1
    /\ game'.animationTimer = 0

\* What C40 says of every state with any durations
TimingInRange ==
    /\ game'.fromStart =>
          /\ game'.frameId \in 0..(Len(game'.frameObjects) - 1)
          /\ game'.animationTimer >= 0
          /\ game'.animationTimer < game'.frameObjects[game'.frameId + 1]
    /\ FrameEnds =>
          game'.frameId = (game.frameId + 1) % Len(game.frameObjects)
    /\ game'.last = "set" =>
          getCurrentFrame(game') =
             IF game'.frame <= durationBefore(game'.frameObjects,
                                              Len(game'.frameObjects))
             THEN game'.frame ELSE 0

\* C40 as stated: for a state with at least one frame, from frame 0 with
\* timer 0, successive updates keep frameId within [0, frameObjects.length)
\* and animationTimer below the current frame's duration, show frame i for
\* exactly duration_i consecutive updates, and return to frame 0 with timer
\* 0 after sum of all durations updates; getCurrentFrame() after
\* setCurrentFrame(f) returns f for 0 <= f <= total duration and 0 for
\* larger f.
C40_AnimationTiming ==
    [][/\ TimingInRange
       /\ FrameEnds =>
             game.animationTimer + Unit = game.frameObjects[game.frameId + 1]
       /\ game'.fromStart
          /\ game'.updates * Unit
               = durationBefore(game'.frameObjects, Len(game'.frameObjects))
             => game'.frameId = 0 /\ game'.animationTimer = 0]_vars

\* C40, amended: the same with frame i shown for duration_i updates rounded
\* up to a whole number of them, and the return to frame 0 with timer 0
\* after the sum of the rounded durations.
C40_AnimationTimingRoundedUp ==
    [][/\ TimingInRange
       /\ FrameEnds =>
             game.animationTimer + Unit
               = WholeUpdates(game.frameObjects[game.frameId + 1])
       /\ game'.fromStart
          /\ game'.updates * Unit
               = wholeUpdatesBefore(game'.frameObjects,
                                    Len(game'.frameObjects))
             => game'.frameId = 0 /\ game'.animationTimer = 0]_vars

\* Three frames of unequal durations, one of them not whole, have been
\* shown in turn and the animation is back at frame 0 with timer 0.
C40_Reached ==
    /\ game.fromStart
    /\ game.last = "update"
    /\ Len(game.frameObjects) = 3
    /\ game.frameObjects[1] = 2 * Unit
    /\ game.frameObjects[2] = Unit + Half
    /\ game.frameObjects[3] = Unit
    /\ game.updates = 5
    /\ game.frameId = 0
    /\ game.animationTimer = 0

====
